---- MODULE Spec2Model ----
(***************************************************************************)
(* Model of alvr/client_openxr/src/lib.rs: the render loop of entry_point  *)
(* (the Pacer: runtime events, application events, one frame per           *)
(* iteration) and the streaming input thread it spawns (the Sampler:       *)
(* update_streaming_input once per period while is_streaming is set).      *)
(*                                                                         *)
(* Options are sequences of length 0 (None) or 1 (Some).  View sets are    *)
(* opaque values.  IPD values are in units of 0.0001 m.                    *)
(***************************************************************************)
EXTENDS Integers, Sequences, FiniteSets, TLC

\* ------------------------------------------------------------------ bounds
MaxSessions == 2      \* sessions acquired by 'session_loop
MaxThreads == 2       \* sampler threads existing at once
MaxTime == 2          \* timestamps are 1..MaxTime
MaxHistory == 2       \* entries pushed per session (not under SpecHistory)
MaxHistTicks == 1000  \* valid sampler ticks under SpecHistory
CountCap == 2         \* notifications counted per thread (CountCap: that or more)
MaxReadings == 3      \* entries pushed per session under SpecSampler
MaxInterval == 2      \* frame_interval is 0..MaxInterval, in units of ten clock ticks
MaxAdvance == 3       \* clock ticks that pass during one poll of the frame loop
TimeBits == 4         \* width of xr::Time and of Duration's nanoseconds (i64, u64)

\* ------------------------------------------------------- program constants
IPD_CHANGE_EPS == 10  \* 0.001 m
HistoryCap == 360
DECODER_MAX_TIMEOUT_MULTIPLIER == 8  \* 0.8, in clock ticks per unit of frame_interval

Sessions == 1..MaxSessions
Tids == 1..MaxThreads
Timestamps == 1..MaxTime
LocatedViews == {"A", "B"}
Resolutions == {"r1", "r2"}
Ipds == {5, 630, 635, 645}

None == <<>>
Some(x) == <<x>>

VARIABLES
    ppc,                     \* position of the Pacer in entry_point
    session,                 \* index of the session of this 'session_loop pass
    haptics,                 \* the last apply_feedback call of CoreHaptics
    is_streaming,            \* per session: the RelaxedAtomic flag
    lobby_swapchains,        \* Option: resolution the pair was created with
    stream_swapchains,       \* Option: resolution the pair was created with
    stream_view_resolution,
    streaming_input_thread,  \* Option: thread id of the JoinHandle held
    views_history,           \* per session: the VecDeque of HistoryView
    history_lock,            \* per session: 0 (free) or the thread id holding it
    space_lock,              \* per session: the RwLock around reference_space
    last_good_views,
    threads,                 \* per thread id: the sampler thread's state
    frame,                   \* locals of the Pacer iteration in progress
    submitted,               \* the last xr_frame_stream.end() call
    lobby_made               \* what READY did with the lobby pair since the last
                             \* STOPPING event (NoLobbyMade)

vars == <<ppc, session, haptics, is_streaming,
          lobby_swapchains, stream_swapchains, stream_view_resolution,
          streaming_input_thread, views_history, history_lock, space_lock,
          last_good_views, threads, frame, submitted, lobby_made>>

\* ----------------------------------------------------------------- values
DefaultViews == "default"
ZeroResolution == "zero"
RecommendedResolution == "rec"

\* Of the tick in progress: the runtime's answer before the history block
\* (call, and the view flags pos and ori), what the tick did, and how it ended.
NoTick == [call |-> "none", pos |-> FALSE, ori |-> FALSE, did |-> {}, res |-> "none"]
\* Of the valid ticks of one thread: their number, the first IPD reading,
\* whether every reading was within IPD_CHANGE_EPS of it, and the number of
\* send_views_config calls.
NoSeen == [valid |-> 0, first |-> None, near |-> TRUE, count |-> 0]
FreeThread == [pc |-> "free", ctx |-> 1, joinable |-> FALSE, face |-> FALSE,
               last_ipd |-> 0, tick |-> NoTick, seen |-> NoSeen]
\* in: 0, or the session whose READY last created a lobby pair; reused: a
\* READY found that pair; twice: a pair was created after an earlier creation
\* in the same session.
NoLobbyMade == [in |-> 0, reused |-> FALSE, twice |-> FALSE]
NoFrame == [chain |-> "none", path |-> "none", vsync |-> 0, timestamp |-> 0,
            buffer |-> "none", matched |-> FALSE, views |-> DefaultViews,
            deadline |-> 0, now |-> 0, result |-> None, calls |-> <<>>,
            reports |-> <<>>]
NoSubmit == [kind |-> "none", time |-> 0, views |-> DefaultViews,
             matched |-> FALSE, buffer |-> "none", chain |-> "none", res |-> ZeroResolution,
             created_res |-> ZeroResolution]

\* The thread of entry_point, as the holder of a lock (the sampler threads
\* are 1..MaxThreads, 0 is no thread).
PacerId == MaxThreads + 1
\* Arc<RwLock<xr::Space>> (lines 50, 441): the threads holding a read guard
\* and the thread holding the write guard.
Unlocked == [readers |-> {}, writer |-> 0]

\* xr::Time is a signed count of nanoseconds, Duration::from_nanos takes an
\* unsigned one: `as _` keeps the bits.
XrTimes == -(2^(TimeBits - 1)) .. (2^(TimeBits - 1) - 1)
\* Duration::from_nanos(time.as_nanos() as _) (lines 752-755).
FromXrTime(t) == t % (2^TimeBits)
\* xr::Time::from_nanos(timestamp.as_nanos() as _) (lines 93-95).
to_xr_time(d) ==
    LET bits == d % (2^TimeBits) IN
    IF bits >= 2^(TimeBits - 1) THEN bits - 2^TimeBits ELSE bits

\* No apply_feedback call yet.  Of a call: the device the request named, the
\* index in hands_context.hand_sources of the vibration action, and the
\* HapticVibration given.
NoHaptics == [device |-> "none", hand |-> -1, requested |-> 0, duration |-> 0,
              frequency |-> 0, amplitude |-> 0]
DeviceIds == {"LEFT_HAND_ID", "RIGHT_HAND_ID", "HEAD_ID"}

HistoryView(ts, v) == [timestamp |-> ts, views |-> v]

Terminal == {"panicked", "exited"}

\* Whether the Arc'd state of session s still has an owner: the Pacer (held)
\* or a running sampler thread.  Unowned state is freed.
Shared(s, ths, held) ==
    held \/ \E t \in Tids : ths[t].pc \notin {"free", "done"} /\ ths[t].ctx = s

IsAlive(t) == threads[t].pc \notin {"free", "done"}
AliveOf(s) == {t \in Tids : IsAlive(t) /\ threads[t].ctx = s}
FreeTids == {t \in Tids : threads[t].pc = "free"}
NewTid == CHOOSE t \in FreeTids : \A u \in FreeTids : t <= u

Abs(x) == IF x < 0 THEN -x ELSE x

\* ------------------------------------------------- update_streaming_input
\* A dedup that compares for inequality, without the epsilon.
IpdDiffers(last, ipd) == last # ipd
\* A dedup that sends nothing as long as the reference is the initial one.
IpdChangedAfterFirst(last, ipd) == last # 0 /\ Abs(last - ipd) > IPD_CHANGE_EPS
\* f32::abs(state.last_ipd - ipd) > IPD_CHANGE_EPS
IpdChanged(last, ipd) == Abs(last - ipd) > IPD_CHANGE_EPS

\* views_history_lock.push_back(HistoryView { timestamp, views })
PushBack(h, e) == Append(h, e)

\* An eviction that lets one entry more stay, and one that removes the
\* newest entry (pop_back).
EvictLate(h) == IF Len(h) > HistoryCap + 1 THEN Tail(h) ELSE h
EvictNewest(h) == IF Len(h) > HistoryCap THEN SubSeq(h, 1, Len(h) - 1) ELSE h
\* if views_history_lock.len() > 360 { views_history_lock.pop_front(); }
Evict(h) == IF Len(h) > HistoryCap THEN Tail(h) ELSE h

\* A flags test that looks at POSITION_VALID only.
ViewsValidPositionOnly(pos, ori) == pos
\* The view flags test: the tick goes on only with POSITION_VALID and
\* ORIENTATION_VALID both set.
ViewsValid(pos, ori) == ~(~pos \/ ~ori)

\* What one call of update_streaming_input meets before the history lock:
\* a failing runtime call, or the located views with their flags and IPD.
TickInput(r, pos, ori, ts, v, ipd) ==
    [r |-> r, pos |-> pos, ori |-> ori, ts |-> ts, v |-> v, ipd |-> ipd]
TickFailures == {TickInput(r, FALSE, FALSE, 0, DefaultViews, 0) :
                     r \in {"sync_err", "clock_err", "locate_err"}}
TickInvalid == {TickInput("located", pos, ori, 0, DefaultViews, 0) :
                    pos \in BOOLEAN, ori \in BOOLEAN} \ 
               {TickInput("located", TRUE, TRUE, 0, DefaultViews, 0)}
TickLocated(tss, vs, ipds) ==
    {TickInput("located", TRUE, TRUE, ts, v, ipd) : ts \in tss, v \in vs, ipd \in ipds}

Min(a, b) == IF a < b THEN a ELSE b

Observe(seen, ipd, sent) ==
    LET first == IF seen.first = None THEN ipd ELSE seen.first[1] IN
    [valid |-> seen.valid + 1,
     first |-> Some(first),
     near |-> seen.near /\ Abs(ipd - first) <= IPD_CHANGE_EPS,
     count |-> IF sent THEN Min(seen.count + 1, CountCap) ELSE seen.count]

\* The while condition of the thread closure fails: the thread returns.
SamplerExit(t) ==
    LET s == threads[t].ctx
        ths == [threads EXCEPT ![t] = IF threads[t].joinable
                                      THEN [FreeThread EXCEPT !.pc = "done",
                                                              !.joinable = TRUE]
                                      ELSE FreeThread]
    IN
    /\ threads[t].pc = "loop"
    /\ ~is_streaming[s]
    /\ threads' = ths
    /\ views_history' = IF Shared(s, ths, s = session /\ ppc \notin Terminal)
                        THEN views_history
                        ELSE [views_history EXCEPT ![s] = <<>>]
    /\ UNCHANGED <<ppc, session, haptics, is_streaming, lobby_swapchains, stream_swapchains,
                   stream_view_resolution, streaming_input_thread, history_lock, space_lock,
                   last_good_views, frame, submitted, lobby_made>>

Ticked(in, did, res) ==
    [call |-> in.r, pos |-> in.pos, ori |-> in.ori, did |-> did, res |-> res]

\* The while condition holds and update_streaming_input runs up to the push
\* under the history lock (lines 219-260), or returns before it.
SamplerTick(t, in) ==
    LET th == threads[t]
        s == th.ctx
    IN
    /\ th.pc = "loop"
    /\ is_streaming[s]
    /\ IF in.r # "located"
       THEN /\ threads' = [threads EXCEPT ![t].pc = "tick_end",
                                          ![t].tick = Ticked(in, {}, "err")]
            /\ UNCHANGED <<views_history, history_lock, space_lock>>
       ELSE IF ~ViewsValid(in.pos, in.ori)
       THEN /\ threads' = [threads EXCEPT ![t].pc = "tick_end",
                                          ![t].tick = Ticked(in, {}, "ok")]
            /\ UNCHANGED <<views_history, history_lock, space_lock>>
       ELSE /\ history_lock[s] = 0
            /\ threads' = [threads EXCEPT
                   ![t].pc = "locked",
                   ![t].last_ipd = IF IpdChanged(th.last_ipd, in.ipd) THEN in.ipd ELSE @,
                   ![t].tick = Ticked(in, IF IpdChanged(th.last_ipd, in.ipd)
                                          THEN {"views_config", "push"} ELSE {"push"},
                                      "none"),
                   ![t].seen = Observe(@, in.ipd, IpdChanged(th.last_ipd, in.ipd))]
            /\ views_history' = [views_history EXCEPT ![s] =
                                     PushBack(@, HistoryView(in.ts, in.v))]
            /\ history_lock' = [history_lock EXCEPT ![s] = t]
            /\ space_lock' = space_lock
    /\ UNCHANGED <<ppc, session, haptics, is_streaming, lobby_swapchains, stream_swapchains,
                   stream_view_resolution, streaming_input_thread, last_good_views,
                   frame, submitted, lobby_made>>

\* What the tick does after the history block (lines 266-333): r is
\* "hand_err" (a get_hand_motion call fails), "buttons_err" (update_buttons
\* fails) or "ok"; nb tells whether the button entries are non-empty.
PostDid(face, r, nb) ==
    IF r = "hand_err" THEN {}
    ELSE {"hands", "head", "tracking", "buttons_polled"}
         \cup (IF face THEN {"face"} ELSE {})
         \cup (IF r = "ok" /\ nb THEN {"send_buttons"} ELSE {})

\* The eviction, the end of the lock's scope (lines 261-264) and the rest of
\* update_streaming_input, which touches nothing shared.
SamplerFinish(t, r, nb) ==
    LET s == threads[t].ctx IN
    /\ threads[t].pc = "locked"
    /\ views_history' = [views_history EXCEPT ![s] = Evict(@)]
    /\ history_lock' = [history_lock EXCEPT ![s] = 0]
    /\ space_lock' = space_lock
    /\ threads' = [threads EXCEPT
           ![t].pc = "tick_end",
           ![t].tick.res = IF r = "ok" THEN "ok" ELSE "err",
           ![t].tick.did = @ \cup PostDid(threads[t].face, r, nb)]
    /\ UNCHANGED <<ppc, session, haptics, is_streaming, lobby_swapchains, stream_swapchains,
                   stream_view_resolution, streaming_input_thread, last_good_views,
                   frame, submitted, lobby_made>>

\* show_err, deadline += frame_interval / 3, thread::sleep (lines 669-672).
SamplerSleep(t) ==
    /\ threads[t].pc = "tick_end"
    /\ threads' = [threads EXCEPT ![t].pc = "loop", ![t].tick = NoTick]
    /\ UNCHANGED <<ppc, session, haptics, is_streaming, lobby_swapchains, stream_swapchains,
                   stream_view_resolution, streaming_input_thread, views_history,
                   history_lock, space_lock, last_good_views, frame, submitted, lobby_made>>

\* ------------------------------------------------------------ entry_point
\* A JoinHandle is dropped without join: the thread runs on detached.
Detach(ths, h) ==
    IF h = None THEN ths
    ELSE [ths EXCEPT ![h[1]] = IF @.pc = "done" THEN FreeThread
                               ELSE [@ EXCEPT !.joinable = FALSE]]

\* A drop that leaves the lobby swapchains to the next pass.
DropLocalsKeepLobby ==
    LET ths == Detach(threads, streaming_input_thread) IN
    /\ lobby_swapchains' = lobby_swapchains
    /\ stream_swapchains' = None
    /\ stream_view_resolution' = ZeroResolution
    /\ streaming_input_thread' = None
    /\ threads' = ths
    /\ last_good_views' = DefaultViews
    /\ frame' = NoFrame
    /\ submitted' = NoSubmit
    /\ is_streaming' = IF Shared(session, ths, FALSE) THEN is_streaming
                       ELSE [is_streaming EXCEPT ![session] = FALSE]
    /\ views_history' = IF Shared(session, ths, FALSE) THEN views_history
                        ELSE [views_history EXCEPT ![session] = <<>>]

\* The locals of one 'session_loop pass go out of scope.
DropLocals ==
    LET ths == Detach(threads, streaming_input_thread) IN
    /\ lobby_swapchains' = None
    /\ stream_swapchains' = None
    /\ stream_view_resolution' = ZeroResolution
    /\ streaming_input_thread' = None
    /\ threads' = ths
    /\ last_good_views' = DefaultViews
    /\ frame' = NoFrame
    /\ submitted' = NoSubmit
    /\ is_streaming' = IF Shared(session, ths, FALSE) THEN is_streaming
                       ELSE [is_streaming EXCEPT ![session] = FALSE]
    /\ views_history' = IF Shared(session, ths, FALSE) THEN views_history
                        ELSE [views_history EXCEPT ![session] = <<>>]

\* An unwrap() of a failed call, or panic!(): the thread of entry_point unwinds.
Panic ==
    /\ ppc' = "panicked"
    /\ DropLocals
    /\ lobby_made' = NoLobbyMade
    /\ UNCHANGED <<session, haptics, history_lock, space_lock>>

\* A break that leaves the render loop only: the next pass of 'session_loop
\* begins.
LeaveRenderLoopOnly ==
    /\ ppc' = "rt_events"
    /\ session' = IF session < MaxSessions THEN session + 1 ELSE session
    /\ haptics' = haptics
    /\ DropLocals
    /\ lobby_made' = [lobby_made EXCEPT !.reused = FALSE]
    /\ UNCHANGED <<history_lock, space_lock>>

\* break 'session_loop: opengl::destroy(), destroy(), entry_point returns.
LeaveSessionLoop ==
    /\ ppc' = "exited"
    /\ DropLocals
    /\ lobby_made' = NoLobbyMade
    /\ UNCHANGED <<session, haptics, history_lock, space_lock>>

\* An insert that does not look at the Option.
LobbyAlwaysMissing(sw) == TRUE
\* lobby_swapchains.get_or_insert_with(..) (lines 494-505).
LobbyMissing(sw) == sw = None
LobbyGetOrInsert(sw) == IF LobbyMissing(sw) THEN Some(RecommendedResolution) ELSE sw

ReadyMade(made, s, creates) ==
    IF creates
    THEN [in |-> s, reused |-> FALSE, twice |-> made.twice \/ made.in = s]
    ELSE [made EXCEPT !.reused = TRUE]

\* SessionState::READY (lines 484-515).
RtReady(ok) ==
    /\ ppc = "rt_events"
    /\ IF ~ok THEN Panic
       ELSE /\ lobby_swapchains' = LobbyGetOrInsert(lobby_swapchains)
            /\ lobby_made' = ReadyMade(lobby_made, session,
                                        LobbyMissing(lobby_swapchains))
            /\ UNCHANGED <<ppc, session, haptics, is_streaming, stream_swapchains,
                           stream_view_resolution, streaming_input_thread,
                           views_history, history_lock, space_lock, last_good_views, threads,
                           frame, submitted>>

\* SessionState::STOPPING, line 519: stream_swapchains.take().
RtStopping ==
    /\ ppc = "rt_events"
    /\ ppc' = "stopping_flag"
    /\ stream_swapchains' = None
    /\ lobby_made' = [lobby_made EXCEPT !.in = 0, !.reused = FALSE]
    /\ UNCHANGED <<session, haptics, is_streaming, lobby_swapchains, stream_view_resolution,
                   streaming_input_thread, views_history, history_lock, space_lock,
                   last_good_views, threads, frame, submitted>>

\* Line 521: is_streaming.set(false).
StoppingClearFlag ==
    /\ ppc = "stopping_flag"
    /\ ppc' = "stopping_join"
    /\ is_streaming' = [is_streaming EXCEPT ![session] = FALSE]
    /\ UNCHANGED <<session, haptics, lobby_swapchains, stream_swapchains,
                   stream_view_resolution, streaming_input_thread, views_history,
                   history_lock, space_lock, last_good_views, threads, frame, submitted,
                   lobby_made>>

\* thread.join() returns once the thread has returned.
Joined(ths, h) == IF h = None THEN TRUE ELSE ths[h[1]].pc = "done"
AfterJoin(ths, h) == IF h = None THEN ths ELSE [ths EXCEPT ![h[1]] = FreeThread]

\* Lines 523-525: streaming_input_thread.take() and join.
StoppingJoin ==
    /\ ppc = "stopping_join"
    /\ Joined(threads, streaming_input_thread)
    /\ ppc' = "stopping_pause"
    /\ threads' = AfterJoin(threads, streaming_input_thread)
    /\ streaming_input_thread' = None
    /\ UNCHANGED <<session, haptics, is_streaming, lobby_swapchains, stream_swapchains,
                   stream_view_resolution, views_history, history_lock, space_lock,
                   last_good_views, frame, submitted, lobby_made>>

\* Lines 528-530: alvr_client_core::pause(), opengl::pause().
StoppingPause ==
    /\ ppc = "stopping_pause"
    /\ ppc' = "stopping_lobby"
    /\ UNCHANGED <<session, haptics, is_streaming, lobby_swapchains, stream_swapchains,
                   stream_view_resolution, streaming_input_thread, views_history,
                   history_lock, space_lock, last_good_views, threads, frame, submitted,
                   lobby_made>>

\* Line 532: lobby_swapchains.take().
StoppingDropLobby ==
    /\ ppc = "stopping_lobby"
    /\ ppc' = "stopping_end"
    /\ lobby_swapchains' = None
    /\ UNCHANGED <<session, haptics, is_streaming, stream_swapchains, stream_view_resolution,
                   streaming_input_thread, views_history, history_lock, space_lock,
                   last_good_views, threads, frame, submitted, lobby_made>>

\* Line 534: xr_session.end().unwrap().
StoppingEnd(ok) ==
    /\ ppc = "stopping_end"
    /\ IF ~ok THEN Panic
       ELSE /\ ppc' = "rt_events"
            /\ UNCHANGED <<session, haptics, is_streaming, lobby_swapchains, stream_swapchains,
                           stream_view_resolution, streaming_input_thread,
                           views_history, history_lock, space_lock, last_good_views, threads,
                           frame, submitted, lobby_made>>

\* SessionState::EXITING and Event::InstanceLossPending: break 'session_loop.
RtExiting ==
    /\ ppc = "rt_events"
    /\ LeaveSessionLoop

\* SessionState::LOSS_PENDING: break 'render_loop; the next pass of
\* 'session_loop creates the session and its state anew (lines 399-475).
RtLossPending(ok) ==
    /\ ppc = "rt_events"
    /\ session < MaxSessions
    /\ IF ~ok THEN Panic
       ELSE /\ ppc' = "rt_events"
            /\ session' = session + 1
            /\ haptics' = haptics
            /\ DropLocals
            /\ lobby_made' = [lobby_made EXCEPT !.reused = FALSE]
            /\ UNCHANGED <<history_lock, space_lock>>

\* Event::ReferenceSpaceChangePending (lines 544-563) and the events that
\* change nothing here (EventsLost, PerfSettingsEXT, other session states);
\* ~ok is a failed unwrap() of poll_event or of the reference space calls.
RtOther(ok) ==
    /\ ppc = "rt_events"
    /\ IF ~ok THEN Panic ELSE UNCHANGED vars

\* poll_event returns None and there are no lobby swapchains: sleep, continue.
PacerIdle ==
    /\ ppc = "rt_events"
    /\ lobby_swapchains = None
    /\ UNCHANGED vars

\* An iteration that goes on to the application events without looking at
\* the lobby swapchains.
PacerToCoreAlways ==
    /\ ppc = "rt_events"
    /\ ppc' = "core_events"
    /\ UNCHANGED <<session, haptics, is_streaming, lobby_swapchains, stream_swapchains,
                   stream_view_resolution, streaming_input_thread, views_history,
                   history_lock, space_lock, last_good_views, threads, frame, submitted,
                   lobby_made>>

\* poll_event returns None and the lobby swapchains exist (lines 595-602).
PacerToCore ==
    /\ ppc = "rt_events"
    /\ lobby_swapchains # None
    /\ ppc' = "core_events"
    /\ UNCHANGED <<session, haptics, is_streaming, lobby_swapchains, stream_swapchains,
                   stream_view_resolution, streaming_input_thread, views_history,
                   history_lock, space_lock, last_good_views, threads, frame, submitted,
                   lobby_made>>

\* The for loop over the locked history (lines 804-809): every entry with the
\* frame's timestamp overwrites history_views, so the last one stays.
Last(S) == CHOOSE i \in S : \A j \in S : j <= i

\* A lookup of the nearest entry at or before the timestamp.
FindViewsAtOrBefore(h, timestamp) ==
    LET M == {i \in 1..Len(h) : h[i].timestamp <= timestamp} IN
    IF M = {} THEN None ELSE Some(h[Last(M)].views)
\* The scan runs over the whole history and every entry with the timestamp
\* overwrites history_views: what remains is the last such entry's views.
FindViews(h, timestamp) ==
    LET hits == {i \in 1..Len(h) : h[i].timestamp = timestamp} IN
    IF hits = {} THEN None ELSE Some(h[Last(hits)].views)

\* A choice that falls back to the default views.
ChosenViewsOrDefault(history_views, last_good) ==
    IF history_views # None THEN history_views[1] ELSE DefaultViews
\* views = if let Some(views) = history_views { .. } else { last_good_views.clone() }
ChosenViews(history_views, last_good) ==
    IF history_views # None THEN history_views[1] ELSE last_good

\* A stream start that creates no swapchains.
StreamNoInsert(sw, resolution) == sw
\* stream_swapchains.get_or_insert_with(..) (lines 676-681).
StreamGetOrInsert(sw, resolution) == IF sw = None THEN Some(resolution) ELSE sw

\* ClientCoreEvent::StreamingStarted (lines 607-708).
CoreStreamingStarted(view_resolution, face, ok) ==
    /\ ppc = "core_events"
    /\ FreeTids # {}
    /\ IF ~ok THEN Panic
       ELSE /\ stream_view_resolution' = view_resolution
            /\ is_streaming' = [is_streaming EXCEPT ![session] = TRUE]
            /\ streaming_input_thread' = Some(NewTid)
            /\ threads' = [Detach(threads, streaming_input_thread) EXCEPT ![NewTid] =
                   [pc |-> "loop", ctx |-> session, joinable |-> TRUE, face |-> face,
                    last_ipd |-> 0, tick |-> NoTick, seen |-> NoSeen]]
            /\ stream_swapchains' = StreamGetOrInsert(stream_swapchains, view_resolution)
            /\ UNCHANGED <<ppc, session, haptics, lobby_swapchains, views_history,
                           history_lock, space_lock,
                           last_good_views, frame, submitted, lobby_made>>

\* ClientCoreEvent::StreamingStopped, line 710: stream_swapchains.take().
CoreStreamingStopped ==
    /\ ppc = "core_events"
    /\ ppc' = "stopped_flag"
    /\ stream_swapchains' = None
    /\ UNCHANGED <<session, haptics, is_streaming, lobby_swapchains, stream_view_resolution,
                   streaming_input_thread, views_history, history_lock, space_lock,
                   last_good_views, threads, frame, submitted, lobby_made>>

\* A StreamingStopped handler that goes to the join leaving the flag set.
StoppedKeepFlag ==
    /\ ppc = "stopped_flag"
    /\ ppc' = "stopped_join"
    /\ UNCHANGED <<session, haptics, is_streaming, lobby_swapchains, stream_swapchains,
                   stream_view_resolution, streaming_input_thread, views_history,
                   history_lock, space_lock, last_good_views, threads, frame, submitted,
                   lobby_made>>

\* Line 712: is_streaming.set(false).
StoppedClearFlag ==
    /\ ppc = "stopped_flag"
    /\ ppc' = "stopped_join"
    /\ is_streaming' = [is_streaming EXCEPT ![session] = FALSE]
    /\ UNCHANGED <<session, haptics, lobby_swapchains, stream_swapchains,
                   stream_view_resolution, streaming_input_thread, views_history,
                   history_lock, space_lock, last_good_views, threads, frame, submitted,
                   lobby_made>>

\* Lines 714-716: streaming_input_thread.take() and join.
StoppedJoin ==
    /\ ppc = "stopped_join"
    /\ Joined(threads, streaming_input_thread)
    /\ ppc' = "core_events"
    /\ threads' = AfterJoin(threads, streaming_input_thread)
    /\ streaming_input_thread' = None
    /\ UNCHANGED <<session, haptics, is_streaming, lobby_swapchains, stream_swapchains,
                   stream_view_resolution, views_history, history_lock, space_lock,
                   last_good_views, frame, submitted, lobby_made>>

\* UpdateHudMessage and Haptics (ok), or a failed apply_feedback and the
\* panic!() of the catch-all arm (~ok).  The call of a Haptics event is
\* recorded by CoreHaptics only.
CoreOther(ok) ==
    /\ ppc = "core_events"
    /\ IF ~ok THEN Panic ELSE UNCHANGED vars

\* if device_id == *LEFT_HAND_ID { hand_sources[0] } else { hand_sources[1] }
\* (lines 724-728).
HapticsHand(device_id) == IF device_id = "LEFT_HAND_ID" THEN 0 ELSE 1
\* xr::Duration::from_nanos(duration.as_nanos() as _) (line 737).
HapticsDuration(duration) == to_xr_time(duration)

\* ClientCoreEvent::Haptics (lines 718-740); ~ok: apply_feedback fails.
CoreHaptics(device_id, duration, frequency, amplitude, ok) ==
    /\ ppc = "core_events"
    /\ IF ~ok THEN Panic
       ELSE /\ haptics' = [device |-> device_id,
                           hand |-> HapticsHand(device_id),
                           requested |-> duration,
                           duration |-> HapticsDuration(duration),
                           frequency |-> frequency,
                           amplitude |-> amplitude]
            /\ UNCHANGED <<ppc, session, is_streaming, lobby_swapchains,
                           stream_swapchains, stream_view_resolution,
                           streaming_input_thread, views_history, history_lock,
                           space_lock, last_good_views, threads, frame, submitted,
                           lobby_made>>


\* alvr_client_core::poll_event() returns None.
CoreDrained ==
    /\ ppc = "core_events"
    /\ ppc' = "frame_wait"
    /\ UNCHANGED <<session, haptics, is_streaming, lobby_swapchains, stream_swapchains,
                   stream_view_resolution, streaming_input_thread, views_history,
                   history_lock, space_lock, last_good_views, threads, frame, submitted,
                   lobby_made>>

\* let swapchains = if let Some(..) = &mut stream_swapchains (lines 771-775).
ChosenChain == IF stream_swapchains # None THEN "stream" ELSE "lobby"
ChainResolution(chain) ==
    IF chain = "stream" THEN stream_swapchains[1] ELSE lobby_swapchains[1]

\* What of the last end() call the next iteration still has.
Kept(sub) == [NoSubmit EXCEPT !.kind = sub.kind, !.views = sub.views]

\* xr_frame_waiter.wait(), begin(), and either the empty end() of a frame
\* not to render or the acquire and wait of both images (lines 745-781).
FrameWait(should_render, vsync_time, ok) ==
    /\ ppc = "frame_wait"
    /\ IF ~ok THEN Panic
       ELSE IF ~should_render
       THEN /\ ppc' = "frame_done"
            /\ submitted' = [NoSubmit EXCEPT !.kind = "empty", !.time = vsync_time]
            /\ UNCHANGED <<session, haptics, is_streaming, lobby_swapchains, stream_swapchains,
                           stream_view_resolution, streaming_input_thread,
                           views_history, history_lock, space_lock, last_good_views, threads,
                           frame, lobby_made>>
       ELSE /\ ppc' = "render"
            /\ frame' = [NoFrame EXCEPT !.chain = ChosenChain, !.vsync = vsync_time]
            /\ UNCHANGED <<session, haptics, is_streaming, lobby_swapchains, stream_swapchains,
                           stream_view_resolution, streaming_input_thread,
                           views_history, history_lock, space_lock, last_good_views, threads,
                           submitted, lobby_made>>

\* A fallback that carries a timestamp other than vsync_time.
StreamFrameStale(got, timestamp) ==
    /\ ppc = "render"
    /\ is_streaming[session]
    /\ ppc' = "lookup"
    /\ frame' = [frame EXCEPT !.path = "stream",
                              !.timestamp = timestamp,
                              !.buffer = IF got THEN "real" ELSE "null"]
    /\ UNCHANGED <<session, haptics, is_streaming, lobby_swapchains, stream_swapchains,
                   stream_view_resolution, streaming_input_thread, views_history,
                   history_lock, space_lock, last_good_views, threads, submitted, lobby_made>>

\* The frame poll of the streaming path (lines 786-802): a decoded frame
\* (got) with its timestamp, or the fallback (vsync_time, null).
StreamFrame(got, timestamp) ==
    /\ ppc = "render"
    /\ is_streaming[session]
    /\ ppc' = "lookup"
    /\ frame' = [frame EXCEPT !.path = "stream",
                              !.timestamp = IF got THEN timestamp ELSE frame.vsync,
                              !.buffer = IF got THEN "real" ELSE "null"]
    /\ UNCHANGED <<session, haptics, is_streaming, lobby_swapchains, stream_swapchains,
                   stream_view_resolution, streaming_input_thread, views_history,
                   history_lock, space_lock, last_good_views, threads, submitted, lobby_made>>

\* The same frame poll, one evaluation of the loop at a time.  Instant::now()
\* is counted in clock ticks from the entry of the loop.
\* Lines 787-791: the deadline and frame_result = None.
PollEnter(frame_interval) ==
    /\ ppc = "render"
    /\ is_streaming[session]
    /\ ppc' = "poll"
    /\ frame' = [frame EXCEPT !.path = "stream",
                              !.deadline = frame_interval * DECODER_MAX_TIMEOUT_MULTIPLIER,
                              !.now = 0,
                              !.result = None]
    /\ UNCHANGED <<session, haptics, is_streaming, lobby_swapchains, stream_swapchains,
                   stream_view_resolution, streaming_input_thread, views_history,
                   history_lock, space_lock, last_good_views, threads, submitted, lobby_made>>

\* A loop condition that looks at the deadline only.
PollUntilDeadline(result, now, deadline) == now < deadline
\* while frame_result.is_none() && Instant::now() < frame_poll_deadline
PollContinues(result, now, deadline) == result = None /\ now < deadline

\* The loop body (lines 793-794): get_frame() and yield_now(), during which
\* elapsed clock ticks pass.
PollStep(got, timestamp, elapsed) ==
    /\ ppc = "poll"
    /\ PollContinues(frame.result, frame.now, frame.deadline)
    /\ frame' = [frame EXCEPT !.result = IF got THEN Some(timestamp) ELSE None,
                              !.now = @ + elapsed]
    /\ UNCHANGED <<ppc, session, haptics, is_streaming, lobby_swapchains, stream_swapchains,
                   stream_view_resolution, streaming_input_thread, views_history,
                   history_lock, space_lock, last_good_views, threads, submitted, lobby_made>>

\* The loop condition fails; the frame or the fallback (lines 797-802).
PollExit ==
    /\ ppc = "poll"
    /\ ~PollContinues(frame.result, frame.now, frame.deadline)
    /\ ppc' = "lookup"
    /\ frame' = [frame EXCEPT
           !.timestamp = IF frame.result # None THEN frame.result[1] ELSE frame.vsync,
           !.buffer = IF frame.result # None THEN "real" ELSE "null"]
    /\ UNCHANGED <<session, haptics, is_streaming, lobby_swapchains, stream_swapchains,
                   stream_view_resolution, streaming_input_thread, views_history,
                   history_lock, space_lock, last_good_views, threads, submitted, lobby_made>>

\* A lookup that takes the entries it has searched out of the history.
StreamLookupConsume ==
    LET history_views == FindViews(views_history[session], frame.timestamp) IN
    /\ ppc = "lookup"
    /\ history_lock[session] = 0
    /\ ppc' = "end_frame"
    /\ last_good_views' = ChosenViews(history_views, last_good_views)
    /\ views_history' = [views_history EXCEPT ![session] = <<>>]
    /\ frame' = [frame EXCEPT !.matched = history_views # None,
                              !.views = ChosenViews(history_views, last_good_views)]
    /\ UNCHANGED <<session, haptics, is_streaming, lobby_swapchains, stream_swapchains,
                   stream_view_resolution, streaming_input_thread,
                   history_lock, space_lock, threads, submitted, lobby_made>>

\* The history lookup and render_stream (lines 804-831).
StreamLookup ==
    LET history_views == FindViews(views_history[session], frame.timestamp) IN
    /\ ppc = "lookup"
    /\ history_lock[session] = 0
    /\ ppc' = "end_frame"
    /\ last_good_views' = ChosenViews(history_views, last_good_views)
    /\ frame' = [frame EXCEPT !.matched = history_views # None,
                              !.views = ChosenViews(history_views, last_good_views)]
    /\ UNCHANGED <<session, haptics, is_streaming, lobby_swapchains, stream_swapchains,
                   stream_view_resolution, streaming_input_thread, views_history,
                   history_lock, space_lock, threads, submitted, lobby_made>>

\* xr_runtime_now (lines 906-911): result is None for an Err of
\* xr_instance.now(), else Some(time).
xr_runtime_now(result) ==
    IF result = None THEN None
    ELSE IF result[1] > 0 THEN Some(FromXrTime(result[1])) ELSE None

\* A subtraction of unsigned values that wraps.
WrappingSub(a, b) == (a - b) % (2^TimeBits)
\* Duration::saturating_sub (line 825).
SaturatingSub(a, b) == IF a > b THEN a - b ELSE 0

\* The calls of alvr_client_core::report_submit in lines 822-827, after the
\* calls already made: buffer is the hardware_buffer given to render_stream.
ReportSubmit(reports, buffer, timestamp, vsync_time, result) ==
    IF buffer # "null" /\ xr_runtime_now(result) # None
    THEN Append(reports, [timestamp |-> timestamp,
                          latency |-> SaturatingSub(vsync_time, xr_runtime_now(result)[1]),
                          clock |-> result[1]])
    ELSE reports

\* The history lookup, render_stream and the report of the submission
\* (lines 804-831), with the result of xr_instance.now().
StreamRender(result) ==
    LET history_views == FindViews(views_history[session], frame.timestamp) IN
    /\ ppc = "lookup"
    /\ history_lock[session] = 0
    /\ ppc' = "end_frame"
    /\ last_good_views' = ChosenViews(history_views, last_good_views)
    /\ frame' = [frame EXCEPT !.matched = history_views # None,
                              !.views = ChosenViews(history_views, last_good_views),
                              !.reports = ReportSubmit(@, frame.buffer, frame.timestamp,
                                                       frame.vsync, result)]
    /\ UNCHANGED <<session, haptics, is_streaming, lobby_swapchains, stream_swapchains,
                   stream_view_resolution, streaming_input_thread, views_history,
                   history_lock, space_lock, threads, submitted, lobby_made>>


\* The lobby path (lines 832-858): locate_views at the predicted display time.
LobbyRender(v, ok) ==
    /\ ppc = "render"
    /\ ~is_streaming[session]
    /\ IF ~ok THEN Panic
       ELSE /\ ppc' = "end_frame"
            /\ frame' = [frame EXCEPT !.path = "lobby", !.timestamp = frame.vsync,
                                      !.views = v]
            /\ UNCHANGED <<session, haptics, is_streaming, lobby_swapchains, stream_swapchains,
                           stream_view_resolution, streaming_input_thread,
                           views_history, history_lock, space_lock, last_good_views, threads,
                           submitted, lobby_made>>

\* view_resolution of the two paths (lines 831, 844).
ViewResolution(path) ==
    IF path = "stream" THEN stream_view_resolution ELSE RecommendedResolution

\* release_image on both swapchains and xr_frame_stream.end (lines 860-897).
EndFrame(ok) ==
    /\ ppc = "end_frame"
    /\ IF ~ok THEN Panic
       ELSE /\ ppc' = "frame_done"
            /\ submitted' = [kind |-> frame.path, time |-> frame.timestamp,
                             views |-> frame.views, matched |-> frame.matched,
                             buffer |-> frame.buffer,
                             chain |-> frame.chain,
                             res |-> ViewResolution(frame.path),
                             created_res |-> ChainResolution(frame.chain)]
            /\ frame' = NoFrame
            /\ UNCHANGED <<session, haptics, is_streaming, lobby_swapchains, stream_swapchains,
                           stream_view_resolution, streaming_input_thread,
                           views_history, history_lock, space_lock, last_good_views, threads,
                           lobby_made>>

\* The next iteration of 'render_loop (continue at line 768, or line 898).
NextIteration ==
    /\ ppc = "frame_done"
    /\ ppc' = "rt_events"
    /\ submitted' = Kept(submitted)
    /\ UNCHANGED <<session, haptics, is_streaming, lobby_swapchains, stream_swapchains,
                   stream_view_resolution, streaming_input_thread, views_history,
                   history_lock, space_lock, last_good_views, threads, frame, lobby_made>>

\* ------------------------------------------------------------ frame calls
\* The same iteration, one step per call on the frame waiter, the frame
\* stream and the swapchains; frame.calls lists the calls of the iteration.
\* Each call is unwrapped (wait panics on Err): ~ok unwinds entry_point.
XrCall(from, to, call, ok) ==
    /\ ppc = from
    /\ IF ~ok THEN Panic
       ELSE /\ ppc' = to
            /\ frame' = [frame EXCEPT !.calls = Append(@, call)]
            /\ UNCHANGED <<session, haptics, is_streaming, lobby_swapchains, stream_swapchains,
                           stream_view_resolution, streaming_input_thread,
                           views_history, history_lock, space_lock, last_good_views,
                           threads, submitted, lobby_made>>

\* xr_frame_waiter.wait() (lines 745-755).
XrWait(vsync_time, ok) ==
    /\ ppc = "frame_wait"
    /\ IF ~ok THEN Panic
       ELSE /\ ppc' = "begin"
            /\ frame' = [NoFrame EXCEPT !.vsync = vsync_time, !.calls = <<"wait">>]
            /\ UNCHANGED <<session, haptics, is_streaming, lobby_swapchains, stream_swapchains,
                           stream_view_resolution, streaming_input_thread,
                           views_history, history_lock, space_lock, last_good_views,
                           threads, submitted, lobby_made>>

\* A frame that is not to be rendered is left without an end() call.
AfterBeginNoEnd(should_render) == IF should_render THEN "acquire0" ELSE "frame_done"
\* if !frame_state.should_render (line 759).
AfterBegin(should_render) == IF should_render THEN "acquire0" ELSE "empty_end"

\* xr_frame_stream.begin().unwrap() (line 757).
XrBegin(should_render, ok) == XrCall("begin", AfterBegin(should_render), "begin", ok)

\* end(predicted_display_time, OPAQUE, &[]) and continue (lines 760-768).
XrEndEmpty(ok) ==
    /\ ppc = "empty_end"
    /\ IF ~ok THEN Panic
       ELSE /\ ppc' = "frame_done"
            /\ frame' = [frame EXCEPT !.calls = Append(@, "end_empty")]
            /\ submitted' = [NoSubmit EXCEPT !.kind = "empty", !.time = frame.vsync]
            /\ UNCHANGED <<session, haptics, is_streaming, lobby_swapchains, stream_swapchains,
                           stream_view_resolution, streaming_input_thread,
                           views_history, history_lock, space_lock, last_good_views,
                           threads, lobby_made>>

\* The choice of the pair and swapchains[0].acquire_image().unwrap()
\* (lines 771-777).
XrAcquireLeft(ok) ==
    /\ ppc = "acquire0"
    /\ IF ~ok THEN Panic
       ELSE /\ ppc' = "acquire1"
            /\ frame' = [frame EXCEPT !.chain = ChosenChain,
                                      !.calls = Append(@, "acquire0")]
            /\ UNCHANGED <<session, haptics, is_streaming, lobby_swapchains, stream_swapchains,
                           stream_view_resolution, streaming_input_thread,
                           views_history, history_lock, space_lock, last_good_views,
                           threads, submitted, lobby_made>>

\* swapchains[1].acquire_image().unwrap() (line 778).
XrAcquireRight(ok) == XrCall("acquire1", "wait0", "acquire1", ok)

\* swapchains[eye].wait_image(INFINITE).unwrap() (lines 780-781).
XrWaitImage(eye, ok) ==
    IF eye = 0 THEN XrCall("wait0", "wait1", "wait0", ok)
    ELSE XrCall("wait1", "render", "wait1", ok)

\* swapchains[eye].release_image().unwrap() (lines 860-861).
XrReleaseImage(eye, ok) ==
    IF eye = 0 THEN XrCall("end_frame", "release1", "release0", ok)
    ELSE XrCall("release1", "end", "release1", ok)

\* xr_frame_stream.end(display_time, OPAQUE, one projection layer).unwrap()
\* (lines 870-897).
XrEnd(ok) ==
    /\ ppc = "end"
    /\ IF ~ok THEN Panic
       ELSE /\ ppc' = "frame_done"
            /\ submitted' = [kind |-> frame.path, time |-> frame.timestamp,
                             views |-> frame.views, matched |-> frame.matched,
                             buffer |-> frame.buffer,
                             chain |-> frame.chain,
                             res |-> ViewResolution(frame.path),
                             created_res |-> ChainResolution(frame.chain)]
            /\ frame' = [frame EXCEPT !.calls = Append(@, "end_projection")]
            /\ UNCHANGED <<session, haptics, is_streaming, lobby_swapchains, stream_swapchains,
                           stream_view_resolution, streaming_input_thread,
                           views_history, history_lock, space_lock, last_good_views,
                           threads, lobby_made>>


\* ------------------------------------------------------------------ locks
\* The same code, one step per lock acquired and per guard dropped.
\* parking_lot's RwLock: read() blocks while a writer holds the lock or waits
\* for it, write() blocks while any guard is held.
WriterWaits(s) == s = session /\ ppc = "space_wait"
CanRead(s) == space_lock[s].writer = 0 /\ ~WriterWaits(s)
CanWrite(s) == space_lock[s].writer = 0 /\ space_lock[s].readers = {}

ReadLock(l, x) == [l EXCEPT !.readers = @ \cup {x}]
\* A guard that outlives its statement.
KeepGuard(l, x) == l
\* A temporary read guard is dropped at the end of its statement.
ReadUnlock(l, x) == [l EXCEPT !.readers = @ \ {x}]

\* sync_actions and the clock succeeded; &ctx.reference_space.read() for
\* locate_views (lines 219-232).
SamplerLocateViews(t) ==
    LET s == threads[t].ctx IN
    /\ threads[t].pc = "loop"
    /\ is_streaming[s]
    /\ CanRead(s)
    /\ space_lock' = [space_lock EXCEPT ![s] = ReadLock(@, t)]
    /\ threads' = [threads EXCEPT ![t].pc = "locate_views"]
    /\ UNCHANGED <<ppc, session, haptics, is_streaming, lobby_swapchains, stream_swapchains,
                   stream_view_resolution, streaming_input_thread, views_history,
                   history_lock, last_good_views, frame, submitted, lobby_made>>

\* locate_views returns and the guard is dropped (line 234); the flags check
\* and the IPD notification (lines 236-252).  Of in, ts and v are not used.
SamplerLocated(t, in) ==
    LET th == threads[t]
        s == th.ctx
    IN
    /\ th.pc = "locate_views"
    /\ space_lock' = [space_lock EXCEPT ![s] = ReadUnlock(@, t)]
    /\ IF in.r # "located"
       THEN threads' = [threads EXCEPT ![t].pc = "tick_end",
                                       ![t].tick = Ticked(in, {}, "err")]
       ELSE IF ~ViewsValid(in.pos, in.ori)
       THEN threads' = [threads EXCEPT ![t].pc = "tick_end",
                                       ![t].tick = Ticked(in, {}, "ok")]
       ELSE threads' = [threads EXCEPT
                ![t].pc = "history",
                ![t].last_ipd = IF IpdChanged(th.last_ipd, in.ipd) THEN in.ipd ELSE @,
                ![t].tick = Ticked(in, IF IpdChanged(th.last_ipd, in.ipd)
                                       THEN {"views_config"} ELSE {}, "none"),
                ![t].seen = Observe(@, in.ipd, IpdChanged(th.last_ipd, in.ipd))]
    /\ UNCHANGED <<ppc, session, haptics, is_streaming, lobby_swapchains, stream_swapchains,
                   stream_view_resolution, streaming_input_thread, views_history,
                   history_lock, last_good_views, frame, submitted, lobby_made>>

\* ctx.views_history.lock() and the push_back (lines 255-260).
SamplerHistoryLock(t, ts, v) ==
    LET s == threads[t].ctx IN
    /\ threads[t].pc = "history"
    /\ history_lock[s] = 0
    /\ history_lock' = [history_lock EXCEPT ![s] = t]
    /\ views_history' = [views_history EXCEPT ![s] = PushBack(@, HistoryView(ts, v))]
    /\ threads' = [threads EXCEPT ![t].pc = "locked", ![t].tick.did = @ \cup {"push"}]
    /\ UNCHANGED <<ppc, session, haptics, is_streaming, lobby_swapchains, stream_swapchains,
                   stream_view_resolution, streaming_input_thread, space_lock,
                   last_good_views, frame, submitted, lobby_made>>

\* The eviction and the end of the block of the guard (lines 261-264).
SamplerHistoryUnlock(t) ==
    LET s == threads[t].ctx IN
    /\ threads[t].pc = "locked"
    /\ views_history' = [views_history EXCEPT ![s] = Evict(@)]
    /\ history_lock' = [history_lock EXCEPT ![s] = 0]
    /\ threads' = [threads EXCEPT ![t].pc = "hands"]
    /\ UNCHANGED <<ppc, session, haptics, is_streaming, lobby_swapchains, stream_swapchains,
                   stream_view_resolution, streaming_input_thread, space_lock,
                   last_good_views, frame, submitted, lobby_made>>

\* &ctx.reference_space.read() for get_hand_motion of one hand or for
\* get_eye_gazes (lines 282, 289, 306).
SamplerHandMotion(t) ==
    LET s == threads[t].ctx IN
    /\ threads[t].pc = "hands"
    /\ CanRead(s)
    /\ space_lock' = [space_lock EXCEPT ![s] = ReadLock(@, t)]
    /\ threads' = [threads EXCEPT ![t].pc = "hand_motion"]
    /\ UNCHANGED <<ppc, session, haptics, is_streaming, lobby_swapchains, stream_swapchains,
                   stream_view_resolution, streaming_input_thread, views_history,
                   history_lock, last_good_views, frame, submitted, lobby_made>>

\* That call returns and its guard is dropped; again: another of these calls
\* follows; otherwise the rest of the tick (lines 295-333) with the results
\* r and nb of PostDid.
SamplerHandMotionDone(t, r, nb, again) ==
    LET s == threads[t].ctx IN
    /\ threads[t].pc = "hand_motion"
    /\ space_lock' = [space_lock EXCEPT ![s] = ReadUnlock(@, t)]
    /\ IF again
       THEN threads' = [threads EXCEPT ![t].pc = "hands"]
       ELSE threads' = [threads EXCEPT
                ![t].pc = "tick_end",
                ![t].tick.res = IF r = "ok" THEN "ok" ELSE "err",
                ![t].tick.did = @ \cup PostDid(threads[t].face, r, nb)]
    /\ UNCHANGED <<ppc, session, haptics, is_streaming, lobby_swapchains, stream_swapchains,
                   stream_view_resolution, streaming_input_thread, views_history,
                   history_lock, last_good_views, frame, submitted, lobby_made>>

\* ReferenceSpaceChangePending: the right operand of the assignment,
\* create_reference_space(..).unwrap(), is evaluated first (lines 551-555).
RtSpaceChange(ok) ==
    /\ ppc = "rt_events"
    /\ IF ~ok THEN Panic
       ELSE /\ ppc' = "space_created"
            /\ UNCHANGED <<session, haptics, is_streaming, lobby_swapchains, stream_swapchains,
                           stream_view_resolution, streaming_input_thread,
                           views_history, history_lock, space_lock, last_good_views,
                           threads, frame, submitted, lobby_made>>

\* reference_space.write() (line 550): the guard, or the wait for it.
PacerSpaceWrite ==
    /\ ppc \in {"space_created", "space_wait"}
    /\ IF CanWrite(session)
       THEN /\ ppc' = "space_write"
            /\ space_lock' = [space_lock EXCEPT ![session].writer = PacerId]
       ELSE /\ ppc = "space_created"
            /\ ppc' = "space_wait"
            /\ space_lock' = space_lock
    /\ UNCHANGED <<session, haptics, is_streaming, lobby_swapchains, stream_swapchains,
                   stream_view_resolution, streaming_input_thread, views_history,
                   history_lock, last_good_views, threads, frame, submitted,
                   lobby_made>>

\* The assignment; the write guard is dropped at the end of the statement
\* (line 555).
PacerSpaceWritten ==
    /\ ppc = "space_write"
    /\ ppc' = "space_bounds"
    /\ space_lock' = [space_lock EXCEPT ![session].writer = 0]
    /\ UNCHANGED <<session, haptics, is_streaming, lobby_swapchains, stream_swapchains,
                   stream_view_resolution, streaming_input_thread, views_history,
                   history_lock, last_good_views, threads, frame, submitted,
                   lobby_made>>

\* reference_space_bounds_rect(..).unwrap() and send_playspace (lines 557-562).
PacerSpaceBounds(ok) ==
    /\ ppc = "space_bounds"
    /\ IF ~ok THEN Panic
       ELSE /\ ppc' = "rt_events"
            /\ UNCHANGED <<session, haptics, is_streaming, lobby_swapchains, stream_swapchains,
                           stream_view_resolution, streaming_input_thread,
                           views_history, history_lock, space_lock, last_good_views,
                           threads, frame, submitted, lobby_made>>

\* views_history.lock() of the for loop (line 805).
PacerScanLock ==
    /\ ppc = "lookup"
    /\ history_lock[session] = 0
    /\ ppc' = "scan"
    /\ history_lock' = [history_lock EXCEPT ![session] = PacerId]
    /\ UNCHANGED <<session, haptics, is_streaming, lobby_swapchains, stream_swapchains,
                   stream_view_resolution, streaming_input_thread, views_history,
                   space_lock, last_good_views, threads, frame, submitted, lobby_made>>

\* The loop and the end of it, where the guard is dropped (lines 805-809);
\* the choice of the views (lines 811-816).
PacerScanUnlock ==
    LET history_views == FindViews(views_history[session], frame.timestamp) IN
    /\ ppc = "scan"
    /\ ppc' = "end_frame"
    /\ history_lock' = [history_lock EXCEPT ![session] = 0]
    /\ last_good_views' = ChosenViews(history_views, last_good_views)
    /\ frame' = [frame EXCEPT !.matched = history_views # None,
                              !.views = ChosenViews(history_views, last_good_views)]
    /\ UNCHANGED <<session, haptics, is_streaming, lobby_swapchains, stream_swapchains,
                   stream_view_resolution, streaming_input_thread, views_history,
                   space_lock, threads, submitted, lobby_made>>

\* An unwrap() fails while the Pacer holds a read guard: the unwinding drops
\* the guard.
PanicReading ==
    /\ ppc' = "panicked"
    /\ DropLocals
    /\ lobby_made' = NoLobbyMade
    /\ space_lock' = [space_lock EXCEPT ![session] = ReadUnlock(@, PacerId)]
    /\ UNCHANGED <<session, haptics, history_lock>>

\* &reference_space.read() for the locate_views of the lobby path (line 839).
PacerLobbyLocate ==
    /\ ppc = "render"
    /\ ~is_streaming[session]
    /\ CanRead(session)
    /\ ppc' = "lobby_locate"
    /\ space_lock' = [space_lock EXCEPT ![session] = ReadLock(@, PacerId)]
    /\ UNCHANGED <<session, haptics, is_streaming, lobby_swapchains, stream_swapchains,
                   stream_view_resolution, streaming_input_thread, views_history,
                   history_lock, last_good_views, threads, frame, submitted,
                   lobby_made>>

\* locate_views(..).unwrap() returns, the guard is dropped (line 842), and
\* the lobby is rendered (lines 844-857).
PacerLobbyLocated(v, ok) ==
    /\ ppc = "lobby_locate"
    /\ IF ~ok THEN PanicReading
       ELSE /\ ppc' = "end_frame"
            /\ space_lock' = [space_lock EXCEPT ![session] = ReadUnlock(@, PacerId)]
            /\ frame' = [frame EXCEPT !.path = "lobby", !.timestamp = frame.vsync,
                                      !.views = v]
            /\ UNCHANGED <<session, haptics, is_streaming, lobby_swapchains, stream_swapchains,
                           stream_view_resolution, streaming_input_thread,
                           views_history, history_lock, last_good_views, threads,
                           submitted, lobby_made>>

\* release_image on both swapchains (ok), and &reference_space.read() in the
\* layer handed to xr_frame_stream.end (lines 860-875).
PacerEndFrame(ok) ==
    /\ ppc = "end_frame"
    /\ IF ~ok THEN Panic
       ELSE /\ CanRead(session)
            /\ ppc' = "ending"
            /\ space_lock' = [space_lock EXCEPT ![session] = ReadLock(@, PacerId)]
            /\ UNCHANGED <<session, haptics, is_streaming, lobby_swapchains, stream_swapchains,
                           stream_view_resolution, streaming_input_thread,
                           views_history, history_lock, last_good_views, threads,
                           frame, submitted, lobby_made>>

\* xr_frame_stream.end(..).unwrap() returns and the guard is dropped
\* (line 897).
PacerEndFrameDone(ok) ==
    /\ ppc = "ending"
    /\ IF ~ok THEN PanicReading
       ELSE /\ ppc' = "frame_done"
            /\ space_lock' = [space_lock EXCEPT ![session] = ReadUnlock(@, PacerId)]
            /\ submitted' = [kind |-> frame.path, time |-> frame.timestamp,
                             views |-> frame.views, matched |-> frame.matched,
                             buffer |-> frame.buffer,
                             chain |-> frame.chain,
                             res |-> ViewResolution(frame.path),
                             created_res |-> ChainResolution(frame.chain)]
            /\ frame' = NoFrame
            /\ UNCHANGED <<session, haptics, is_streaming, lobby_swapchains, stream_swapchains,
                           stream_view_resolution, streaming_input_thread,
                           views_history, history_lock, last_good_views, threads,
                           lobby_made>>


\* ---------------------------------------------------------- specification
Init ==
    /\ ppc = "rt_events"
    /\ session = 1
    /\ haptics = NoHaptics
    /\ is_streaming = [s \in Sessions |-> FALSE]
    /\ lobby_swapchains = None
    /\ stream_swapchains = None
    /\ stream_view_resolution = ZeroResolution
    /\ streaming_input_thread = None
    /\ views_history = [s \in Sessions |-> <<>>]
    /\ history_lock = [s \in Sessions |-> 0]
    /\ space_lock = [s \in Sessions |-> Unlocked]
    /\ last_good_views = DefaultViews
    /\ threads = [t \in Tids |-> FreeThread]
    /\ frame = NoFrame
    /\ submitted = NoSubmit
    /\ lobby_made = NoLobbyMade

\* Spec: the whole life cycle (sessions, streams, frames, sampler threads),
\* with one value of each datum the life cycle does not depend on.
Sampler ==
    \E t \in Tids :
        \/ SamplerExit(t)
        \/ SamplerTick(t, TickInput("clock_err", FALSE, FALSE, 0, DefaultViews, 0))
        \/ SamplerTick(t, TickInput("located", TRUE, FALSE, 0, DefaultViews, 0))
        \/ /\ Len(views_history[threads[t].ctx]) < MaxHistory
           /\ SamplerTick(t, TickInput("located", TRUE, TRUE, 1, "A", 630))
        \/ SamplerFinish(t, "ok", FALSE)
        \/ SamplerSleep(t)

SessionController ==
    \/ \E ok \in BOOLEAN : RtReady(ok)
    \/ RtStopping
    \/ StoppingClearFlag
    \/ StoppingJoin
    \/ StoppingPause
    \/ StoppingDropLobby
    \/ \E ok \in BOOLEAN : StoppingEnd(ok)
    \/ RtExiting
    \/ \E ok \in BOOLEAN : RtLossPending(ok)
    \/ \E ok \in BOOLEAN : RtOther(ok)

Pacer ==
    \/ PacerIdle
    \/ PacerToCore
    \/ \E r \in Resolutions, ok \in BOOLEAN : CoreStreamingStarted(r, FALSE, ok)
    \/ CoreStreamingStopped
    \/ StoppedClearFlag
    \/ StoppedJoin
    \/ \E ok \in BOOLEAN : CoreOther(ok)
    \/ CoreDrained
    \/ \E sr \in BOOLEAN, ok \in BOOLEAN : FrameWait(sr, 1, ok)
    \/ \E got \in BOOLEAN : StreamFrame(got, 1)
    \/ StreamLookup
    \/ \E ok \in BOOLEAN : LobbyRender("A", ok)
    \/ \E ok \in BOOLEAN : EndFrame(ok)
    \/ NextIteration

Next == Sampler \/ SessionController \/ Pacer

Spec == Init /\ [][Next]_vars

\* SpecSampler: one session with a stream started; the sampler threads of
\* successive streams tick on every input, the Pacer only starts and stops
\* streams.
InitStreaming(face) ==
    /\ ppc = "core_events"
    /\ session = 1
    /\ haptics = NoHaptics
    /\ is_streaming = [s \in Sessions |-> s = 1]
    /\ lobby_swapchains = Some(RecommendedResolution)
    /\ stream_swapchains = Some("r1")
    /\ stream_view_resolution = "r1"
    /\ streaming_input_thread = Some(1)
    /\ views_history = [s \in Sessions |-> <<>>]
    /\ history_lock = [s \in Sessions |-> 0]
    /\ space_lock = [s \in Sessions |-> Unlocked]
    /\ last_good_views = DefaultViews
    /\ threads = [t \in Tids |-> IF t = 1
                                 THEN [FreeThread EXCEPT !.pc = "loop", !.joinable = TRUE,
                                                         !.face = face]
                                 ELSE FreeThread]
    /\ frame = NoFrame
    /\ submitted = NoSubmit
    /\ lobby_made = [NoLobbyMade EXCEPT !.in = 1]

InitSampler == \E face \in BOOLEAN : InitStreaming(face)

PostResults == {"hand_err", "buttons_err", "ok"}
SamplerReadings == TickLocated({1}, {"A"}, Ipds)

NextSampler ==
    \/ \E t \in Tids : SamplerExit(t)
    \/ \E t \in Tids, in \in TickFailures \cup TickInvalid : SamplerTick(t, in)
    \/ \E t \in Tids, in \in SamplerReadings :
           /\ Len(views_history[threads[t].ctx]) < MaxReadings
           /\ SamplerTick(t, in)
    \/ \E t \in Tids, r \in PostResults, nb \in BOOLEAN : SamplerFinish(t, r, nb)
    \/ \E t \in Tids : SamplerSleep(t)
    \/ CoreStreamingStopped
    \/ StoppedClearFlag
    \/ StoppedJoin
    \/ \E face \in BOOLEAN :
           /\ streaming_input_thread = None
           /\ CoreStreamingStarted("r1", face, TRUE)

SpecSampler == InitSampler /\ [][NextSampler]_vars

\* SpecStream: one session after READY; streams start and stop in turn, the
\* Pacer renders frames, the sampler fills the history with every timestamp
\* and view set.
InitLobby ==
    /\ ppc = "rt_events"
    /\ session = 1
    /\ haptics = NoHaptics
    /\ is_streaming = [s \in Sessions |-> FALSE]
    /\ lobby_swapchains = Some(RecommendedResolution)
    /\ stream_swapchains = None
    /\ stream_view_resolution = ZeroResolution
    /\ streaming_input_thread = None
    /\ views_history = [s \in Sessions |-> <<>>]
    /\ history_lock = [s \in Sessions |-> 0]
    /\ space_lock = [s \in Sessions |-> Unlocked]
    /\ last_good_views = DefaultViews
    /\ threads = [t \in Tids |-> FreeThread]
    /\ frame = NoFrame
    /\ submitted = NoSubmit
    /\ lobby_made = [NoLobbyMade EXCEPT !.in = 1]

NextStream ==
    \/ \E t \in Tids : SamplerExit(t)
    \/ \E t \in Tids : SamplerTick(t, TickInput("located", FALSE, TRUE, 0, DefaultViews, 0))
    \/ \E t \in Tids, in \in TickLocated(Timestamps, LocatedViews, {630}) :
           /\ Len(views_history[threads[t].ctx]) < MaxHistory
           /\ SamplerTick(t, in)
    \/ \E t \in Tids : SamplerFinish(t, "ok", FALSE)
    \/ \E t \in Tids : SamplerSleep(t)
    \/ PacerToCore
    \/ /\ streaming_input_thread = None
       /\ CoreStreamingStarted("r1", FALSE, TRUE)
    \/ CoreStreamingStopped
    \/ StoppedClearFlag
    \/ StoppedJoin
    \/ CoreDrained
    \/ \E sr \in BOOLEAN, vs \in Timestamps : FrameWait(sr, vs, TRUE)
    \/ \E got \in BOOLEAN, ts \in Timestamps : StreamFrame(got, ts)
    \/ StreamLookup
    \/ \E v \in LocatedViews : LobbyRender(v, TRUE)
    \/ EndFrame(TRUE)
    \/ NextIteration

SpecStream == InitLobby /\ [][NextStream]_vars

\* SpecHistory: one stream whose sampler runs MaxHistTicks valid ticks, the
\* k-th with target timestamp k, while the Pacer renders frames with
\* timestamp 1.
ViewsAt(ts) == IF ts % 2 = 1 THEN "A" ELSE "B"
ReadingAt(ts) == TickInput("located", TRUE, TRUE, ts, ViewsAt(ts), 630)

InitHistory == InitStreaming(FALSE)

NextHistory ==
    \/ \E t \in Tids :
           /\ threads[t].seen.valid < MaxHistTicks
           /\ SamplerTick(t, ReadingAt(threads[t].seen.valid + 1))
    \/ \E t \in Tids : SamplerTick(t, TickInput("located", TRUE, FALSE, 0, DefaultViews, 0))
    \/ \E t \in Tids : SamplerFinish(t, "ok", FALSE)
    \/ \E t \in Tids : SamplerSleep(t)
    \/ PacerToCore
    \/ CoreDrained
    \/ FrameWait(TRUE, 1, TRUE)
    \/ StreamFrame(TRUE, 1)
    \/ StreamLookup
    \/ EndFrame(TRUE)
    \/ NextIteration

SpecHistory == InitHistory /\ [][NextHistory]_vars

\* SpecPoll: one stream whose Pacer polls for the decoded frame step by
\* step.  The clock goes on (some poll sees time pass) and the Pacer thread
\* is scheduled.
FrameIntervals == 0..MaxInterval
PollTimePasses ==
    \E got \in BOOLEAN, ts \in Timestamps, e \in 1..MaxAdvance : PollStep(got, ts, e)

InitPoll == InitStreaming(FALSE)

NextPoll ==
    \/ \E t \in Tids :
           /\ Len(views_history[threads[t].ctx]) < MaxHistory
           /\ SamplerTick(t, TickInput("located", TRUE, TRUE, 1, "A", 630))
    \/ \E t \in Tids : SamplerFinish(t, "ok", FALSE)
    \/ \E t \in Tids : SamplerSleep(t)
    \/ PacerToCore
    \/ CoreDrained
    \/ \E vs \in Timestamps : FrameWait(TRUE, vs, TRUE)
    \/ \E i \in FrameIntervals : PollEnter(i)
    \/ \E got \in BOOLEAN, ts \in Timestamps, e \in 0..MaxAdvance : PollStep(got, ts, e)
    \/ PollExit
    \/ StreamLookup
    \/ EndFrame(TRUE)
    \/ NextIteration

SpecPoll ==
    /\ InitPoll
    /\ [][NextPoll]_vars
    /\ WF_vars(PollTimePasses)
    /\ WF_vars(PollExit)

\* SpecCancel: streams are started and stopped, by StreamingStopped and by
\* STOPPING, while the sampler ticks.  Every sampler thread is scheduled and
\* each of its runtime calls returns; a join returns once its thread has.
SamplerProgress(t) ==
    \/ \E r \in PostResults, nb \in BOOLEAN : SamplerFinish(t, r, nb)
    \/ SamplerSleep(t)
    \/ SamplerExit(t)

InitCancel == InitStreaming(FALSE)

NextCancel ==
    \/ \E t \in Tids : SamplerExit(t)
    \/ \E t \in Tids : SamplerTick(t, TickInput("clock_err", FALSE, FALSE, 0, DefaultViews, 0))
    \/ \E t \in Tids : SamplerTick(t, TickInput("located", FALSE, TRUE, 0, DefaultViews, 0))
    \/ \E t \in Tids :
           /\ Len(views_history[threads[t].ctx]) < MaxHistory
           /\ SamplerTick(t, TickInput("located", TRUE, TRUE, 1, "A", 630))
    \/ \E t \in Tids, r \in PostResults, nb \in BOOLEAN : SamplerFinish(t, r, nb)
    \/ \E t \in Tids : SamplerSleep(t)
    \/ RtReady(TRUE)
    \/ RtStopping
    \/ StoppingClearFlag
    \/ StoppingJoin
    \/ StoppingPause
    \/ StoppingDropLobby
    \/ StoppingEnd(TRUE)
    \/ PacerIdle
    \/ PacerToCore
    \/ CoreStreamingStarted("r1", FALSE, TRUE)
    \/ CoreStreamingStopped
    \/ StoppedClearFlag
    \/ StoppedJoin
    \/ CoreDrained
    \/ FrameWait(FALSE, 1, TRUE)
    \/ NextIteration

SpecCancel ==
    /\ InitCancel
    /\ [][NextCancel]_vars
    /\ \A t \in Tids : WF_vars(SamplerProgress(t))
    /\ WF_vars(StoppedJoin)
    /\ WF_vars(StoppingJoin)

\* SpecLocks: one session with a stream started; streams stop and start, the
\* reference space changes, frames of both paths are rendered, and every lock
\* is taken and dropped in a step of its own.
InitLocks == InitStreaming(FALSE)

NextLocks ==
    \/ \E t \in Tids : SamplerExit(t)
    \/ \E t \in Tids : SamplerTick(t, TickInput("clock_err", FALSE, FALSE, 0, DefaultViews, 0))
    \/ \E t \in Tids :
           /\ Len(views_history[threads[t].ctx]) < MaxHistory
           /\ SamplerLocateViews(t)
    \/ \E t \in Tids : SamplerLocated(t, TickInput("locate_err", FALSE, FALSE, 0, DefaultViews, 0))
    \/ \E t \in Tids : SamplerLocated(t, TickInput("located", FALSE, TRUE, 0, DefaultViews, 0))
    \/ \E t \in Tids : SamplerLocated(t, TickInput("located", TRUE, TRUE, 0, DefaultViews, 630))
    \/ \E t \in Tids : SamplerHistoryLock(t, 1, "A")
    \/ \E t \in Tids : SamplerHistoryUnlock(t)
    \/ \E t \in Tids : SamplerHandMotion(t)
    \/ \E t \in Tids, again \in BOOLEAN : SamplerHandMotionDone(t, "ok", TRUE, again)
    \/ \E t \in Tids : SamplerSleep(t)
    \/ \E ok \in BOOLEAN : RtSpaceChange(ok)
    \/ PacerSpaceWrite
    \/ PacerSpaceWritten
    \/ \E ok \in BOOLEAN : PacerSpaceBounds(ok)
    \/ PacerToCore
    \/ CoreStreamingStarted("r1", FALSE, TRUE)
    \/ CoreStreamingStopped
    \/ StoppedClearFlag
    \/ StoppedJoin
    \/ CoreDrained
    \/ FrameWait(TRUE, 1, TRUE)
    \/ StreamFrame(TRUE, 1)
    \/ PacerScanLock
    \/ PacerScanUnlock
    \/ PacerLobbyLocate
    \/ \E ok \in BOOLEAN : PacerLobbyLocated("A", ok)
    \/ \E ok \in BOOLEAN : PacerEndFrame(ok)
    \/ \E ok \in BOOLEAN : PacerEndFrameDone(ok)
    \/ NextIteration

SpecLocks == InitLocks /\ [][NextLocks]_vars


\* SpecFrame: one session after READY; streams start and stop, and every
\* iteration that reaches the frame wait makes its calls one at a time.
InitFrame == InitLobby

NextFrame ==
    \/ \E t \in Tids : SamplerExit(t)
    \/ \E t \in Tids :
           /\ Len(views_history[threads[t].ctx]) < MaxHistory
           /\ SamplerTick(t, TickInput("located", TRUE, TRUE, 1, "A", 630))
    \/ \E t \in Tids : SamplerFinish(t, "ok", FALSE)
    \/ \E t \in Tids : SamplerSleep(t)
    \/ PacerToCore
    \/ /\ streaming_input_thread = None
       /\ CoreStreamingStarted("r1", FALSE, TRUE)
    \/ CoreStreamingStopped
    \/ StoppedClearFlag
    \/ StoppedJoin
    \/ CoreDrained
    \/ \E vs \in Timestamps, ok \in BOOLEAN : XrWait(vs, ok)
    \/ \E sr \in BOOLEAN, ok \in BOOLEAN : XrBegin(sr, ok)
    \/ \E ok \in BOOLEAN : XrEndEmpty(ok)
    \/ \E ok \in BOOLEAN : XrAcquireLeft(ok)
    \/ \E ok \in BOOLEAN : XrAcquireRight(ok)
    \/ \E eye \in {0, 1}, ok \in BOOLEAN : XrWaitImage(eye, ok)
    \/ \E got \in BOOLEAN, ts \in Timestamps : StreamFrame(got, ts)
    \/ StreamLookup
    \/ \E v \in LocatedViews : LobbyRender(v, TRUE)
    \/ \E eye \in {0, 1}, ok \in BOOLEAN : XrReleaseImage(eye, ok)
    \/ \E ok \in BOOLEAN : XrEnd(ok)
    \/ NextIteration

SpecFrame == InitFrame /\ [][NextFrame]_vars


\* SpecReport: one session after READY; streams start and stop, the Pacer
\* renders frames of both paths and reads the runtime clock after every
\* stream frame.
ClockResults == {None} \cup {Some(t) : t \in -1 .. (MaxTime + 1)}

InitReport == InitLobby

NextReport ==
    \/ \E t \in Tids : SamplerExit(t)
    \/ \E t \in Tids :
           /\ Len(views_history[threads[t].ctx]) < MaxHistory
           /\ SamplerTick(t, TickInput("located", TRUE, TRUE, 1, "A", 630))
    \/ \E t \in Tids : SamplerFinish(t, "ok", FALSE)
    \/ \E t \in Tids : SamplerSleep(t)
    \/ PacerToCore
    \/ /\ streaming_input_thread = None
       /\ CoreStreamingStarted("r1", FALSE, TRUE)
    \/ CoreStreamingStopped
    \/ StoppedClearFlag
    \/ StoppedJoin
    \/ CoreDrained
    \/ \E sr \in BOOLEAN, vs \in Timestamps : FrameWait(sr, vs, TRUE)
    \/ \E got \in BOOLEAN, ts \in Timestamps : StreamFrame(got, ts)
    \/ \E result \in ClockResults : StreamRender(result)
    \/ \E v \in LocatedViews : LobbyRender(v, TRUE)
    \/ EndFrame(TRUE)
    \/ NextIteration

SpecReport == InitReport /\ [][NextReport]_vars


\* SpecHaptics: one session after READY; the Pacer handles haptics requests
\* for every device, duration, frequency and amplitude, and waits for frames
\* that are not to be rendered.
HapticsDurations == 0 .. (2^TimeBits - 1)
HapticsLevels == {0, 1}

InitHaptics == InitLobby

NextHaptics ==
    \/ PacerToCore
    \/ \E device_id \in DeviceIds, duration \in HapticsDurations,
          frequency \in HapticsLevels, amplitude \in HapticsLevels, ok \in BOOLEAN :
           CoreHaptics(device_id, duration, frequency, amplitude, ok)
    \/ CoreDrained
    \/ FrameWait(FALSE, 1, TRUE)
    \/ NextIteration

SpecHaptics == InitHaptics /\ [][NextHaptics]_vars


\* ------------------------------------------------------- claims under Spec
Alive == {t \in Tids : IsAlive(t)}
InHandler == ppc \in {"stopping_flag", "stopping_join", "stopping_pause",
                      "stopping_lobby", "stopping_end", "stopped_flag", "stopped_join"}

\* C1: in no reachable state is the streaming swapchain pair already dropped
\* while the sampler thread started for that stream (the one whose JoinHandle
\* is held) is still alive.
C1_SamplerExitsBeforeSwapchainDrop ==
    (streaming_input_thread # None /\ IsAlive(streaming_input_thread[1]))
        => stream_swapchains # None

\* C2: whenever the Pacer is between event handlers, exactly one sampler
\* thread is alive if the streaming flag is true, and none if it is false.
C2_OneSamplerIffStreaming ==
    (ppc \notin Terminal /\ ~InHandler)
        => Cardinality(Alive) = (IF is_streaming[session] THEN 1 ELSE 0)

\* A READY handled without panic while the lobby pair exists, and one
\* that creates the pair.
ReadyWithLobby == lobby_swapchains # None /\ RtReady(TRUE)
ReadyCreates == RtReady(TRUE) /\ lobby_made'.in = session /\ ~lobby_made'.reused

\* C10 as stated: a READY handled while a lobby pair exists creates none and
\* keeps the pair, and no lobby pair is created when one has already been
\* created since the last STOPPING event.
C10_OncePerStopping ==
    /\ [][ReadyWithLobby => /\ lobby_swapchains' = lobby_swapchains
                            /\ lobby_made'.reused]_vars
    /\ [][ReadyCreates => lobby_made.in = 0]_vars

\* C10 amended: a READY handled while a lobby pair exists creates none and
\* keeps the pair, and no lobby pair is created when one has already been
\* created in the same session since the last STOPPING event.
C10_OncePerSegment ==
    /\ [][ReadyWithLobby => /\ lobby_swapchains' = lobby_swapchains
                            /\ lobby_made'.reused]_vars
    /\ [][ReadyCreates => lobby_made.in # session]_vars
    /\ [](~lobby_made.twice)

C10_Witness ==
    /\ lobby_made.reused
    /\ lobby_made.in = session
    /\ lobby_swapchains = Some(RecommendedResolution)
    /\ session > 1

\* C12: when the STOPPING handler pauses the backend and when it ends the
\* session, the streaming flag is cleared, the streaming swapchains are
\* dropped and no sampler thread of the session is left (the handle is taken
\* and every sampler has returned); when it ends the session the lobby
\* swapchains are dropped.
C12_StreamingReleasedBeforePause ==
    /\ ppc \in {"stopping_pause", "stopping_lobby", "stopping_end"} =>
           /\ ~is_streaming[session]
           /\ stream_swapchains = None
           /\ streaming_input_thread = None
           /\ AliveOf(session) = {}
    /\ ppc = "stopping_end" => lobby_swapchains = None

\* C13 as stated: at EXITING the render loop ends and a new session is
\* acquired, the process going on.
C13_ExitingReacquires ==
    [][RtExiting => (ppc' = "rt_events" /\ session' = session + 1)]_vars

\* C13 amended: at EXITING the render loop and the session loop both end:
\* the per-session state is dropped, entry_point returns, and no session is
\* acquired afterwards.
C13_ExitingLeavesSessionLoop ==
    /\ [][RtExiting => /\ ppc' = "exited"
                       /\ session' = session
                       /\ lobby_swapchains' = None
                       /\ stream_swapchains' = None
                       /\ streaming_input_thread' = None]_vars
    /\ [][ppc = "exited" => /\ ppc' = "exited"
                            /\ session' = session
                            /\ lobby_swapchains' = None]_vars

C13_Witness ==
    /\ ppc = "exited"
    /\ session = 2
    /\ \E t \in Tids : IsAlive(t)

\* C14: at LOSS_PENDING (the session being created anew without failure) the
\* Pacer goes on, in the render loop of a new session whose streaming flag is
\* false, whose history is empty and which has no swapchains, no sampler
\* handle and the default last-good views; only EXITING or an instance loss
\* ends entry_point without a panic.
C14_LossPendingReacquires ==
    /\ [][RtLossPending(TRUE) =>
              /\ ppc' = "rt_events"
              /\ session' = session + 1
              /\ ~is_streaming'[session']
              /\ views_history'[session'] = <<>>
              /\ history_lock'[session'] = 0
              /\ lobby_swapchains' = None
              /\ stream_swapchains' = None
              /\ stream_view_resolution' = ZeroResolution
              /\ streaming_input_thread' = None
              /\ last_good_views' = DefaultViews]_vars
    /\ [][session' # session => RtLossPending(TRUE)]_vars
    /\ [][(ppc # "exited" /\ ppc' = "exited") => RtExiting]_vars

C14_Witness ==
    /\ session = 2
    /\ ppc = "frame_done"
    /\ submitted.kind = "lobby"
    /\ is_streaming[1]
    /\ views_history[1] # <<>>
    /\ ~is_streaming[2]
    /\ views_history[2] = <<>>

\* C17: when polling the runtime event queue or handling a reference space
\* change fails, the event is skipped: the Pacer stays in its event loop with
\* its state as it was.
C17_EventFailureSkipped ==
    [][RtOther(FALSE) => /\ ppc' = "rt_events"
                         /\ lobby_swapchains' = lobby_swapchains
                         /\ streaming_input_thread' = streaming_input_thread]_vars

\* C19: a sampler thread that is alive in a session later than the one it
\* was started in has at least been told to stop: the streaming flag it
\* polls is false.
C19_SamplerStoppedWithItsSession ==
    \A t \in Tids :
        (IsAlive(t) /\ threads[t].ctx < session) => ~is_streaming[threads[t].ctx]


\* The positions of the Pacer in the runtime event loop and its handlers.
InRtEvents == ppc \in {"rt_events", "stopping_flag", "stopping_join", "stopping_pause",
                       "stopping_lobby", "stopping_end"}

\* C20: while there are no lobby swapchains the Pacer is in the runtime event
\* loop (or entry_point has ended): it is not at the application events, the
\* frame wait or a frame.  A step that leaves them missing submits no frame,
\* starts no stream and spawns no sampler thread, and the idle iteration
\* changes nothing; a stream is started only when the lobby swapchains exist.
C20_IdleWithoutLobby ==
    /\ [](lobby_swapchains = None => (InRtEvents \/ ppc \in Terminal))
    /\ [][(lobby_swapchains = None /\ lobby_swapchains' = None) =>
              /\ submitted' \in {submitted, NoSubmit}
              /\ frame' = NoFrame
              /\ stream_swapchains' = None
              /\ streaming_input_thread' \in {streaming_input_thread, None}
              /\ \A s \in Sessions : is_streaming'[s] => is_streaming[s]]_vars
    /\ [][PacerIdle => UNCHANGED vars]_vars
    /\ [][(\E s \in Sessions : is_streaming'[s] /\ ~is_streaming[s]) =>
              lobby_swapchains # None /\ lobby_swapchains' # None]_vars

\* C20 is checked where the Pacer idles after a STOPPING event that followed
\* a stream: no lobby swapchains, and the last frame submitted is still the
\* one from before the event.
C20_Witness ==
    /\ ppc = "rt_events"
    /\ lobby_swapchains = None
    /\ lobby_made.in = 0
    /\ stream_view_resolution # ZeroResolution
    /\ submitted.kind # "none"


\* The state of session s has no owner left after the step and is freed.
Freed(s) == ~Shared(s, threads', s = session' /\ ppc' \notin Terminal)

\* C25: a step of a sampler thread leaves the streaming flags, both swapchain
\* pairs, the stream view resolution and the last good views as they are;
\* a step of entry_point leaves every history as it is, unless the step
\* frees it; a flag becomes true only in the StreamingStarted handler and
\* false only in the STOPPING and StreamingStopped handlers, each for the
\* session of the handler, or when its session's state is freed.
C25_WritersAndReaders ==
    /\ [][Sampler =>
              /\ is_streaming' = is_streaming
              /\ lobby_swapchains' = lobby_swapchains
              /\ stream_swapchains' = stream_swapchains
              /\ stream_view_resolution' = stream_view_resolution
              /\ last_good_views' = last_good_views]_vars
    /\ [][(SessionController \/ Pacer) =>
              \A s \in Sessions :
                  \/ views_history'[s] = views_history[s]
                  \/ views_history'[s] = <<>> /\ Freed(s)]_vars
    /\ [][\A s \in Sessions :
              (~is_streaming[s] /\ is_streaming'[s]) =>
                  s = session /\ ppc = "core_events" /\ ~Sampler]_vars
    /\ [][\A s \in Sessions :
              (is_streaming[s] /\ ~is_streaming'[s]) =>
                  /\ ~Sampler
                  /\ \/ s = session /\ ppc \in {"stopping_flag", "stopped_flag"}
                     \/ Freed(s)]_vars

\* C25 is checked where the Pacer has found in the history an entry the
\* sampler pushed, in a stream whose flag the Pacer set, while the sampler is
\* in a tick.
C25_Witness ==
    /\ ppc = "end_frame"
    /\ frame.matched
    /\ is_streaming[session]
    /\ views_history[session] # <<>>
    /\ \E t \in Tids : threads[t].pc = "locked" /\ threads[t].ctx = session


\* C26: where the Pacer chooses its render path, and whenever it is not in
\* the middle of a STOPPING or StreamingStopped handler, the streaming flag
\* of the session is true exactly if the streaming swapchains exist; the
\* pair whose images were acquired is the streaming pair exactly if the
\* streaming path is taken, and every stream frame submitted was rendered
\* into the streaming pair, every lobby frame into the lobby pair.
C26_FlagIffStreamSwapchains ==
    /\ (ppc \notin Terminal /\ ~InHandler) =>
           (is_streaming[session] <=> stream_swapchains # None)
    /\ ppc = "render" =>
           /\ frame.chain = (IF is_streaming[session] THEN "stream" ELSE "lobby")
           /\ frame.chain = "lobby" => lobby_swapchains # None
    /\ frame.path \in {"stream", "lobby"} => frame.chain = frame.path
    /\ submitted.kind \in {"stream", "lobby"} /\ ppc = "frame_done" =>
           submitted.chain = submitted.kind

\* C26 is checked where a stream frame has been submitted in a stream that
\* was started while the sampler thread of an earlier start was running, and
\* that thread has ended since.
C26_Witness ==
    /\ ppc = "frame_done"
    /\ submitted.kind = "stream"
    /\ submitted.chain = "stream"
    /\ streaming_input_thread = Some(2)
    /\ threads[1].pc = "free"


\* C27: the image rectangle of every stream frame submitted has the
\* resolution its swapchains were created with.
C27_RectMatchesSwapchains ==
    (ppc = "frame_done" /\ submitted.kind = "stream") =>
        submitted.res = submitted.created_res


\* ------------------------------------------------ claims under SpecSampler
\* The tick of thread t located the views and a validity flag is unset.
FlagUnset(tick) == tick.call = "located" /\ (~tick.pos \/ ~tick.ori)

\* C3: a tick whose located views have the position-valid or the
\* orientation-valid flag unset sends no IPD notification and no head motion
\* sample, appends nothing to the history and leaves the last notified IPD.
C3_InvalidTickEmitsNothing ==
    /\ [](\A t \in Tids : FlagUnset(threads[t].tick) =>
              /\ threads[t].pc = "tick_end"
              /\ threads[t].tick.did \cap {"views_config", "head", "push"} = {})
    /\ [][\A t \in Tids :
              (threads[t].pc = "loop" /\ FlagUnset(threads'[t].tick)) =>
                  /\ views_history' = views_history
                  /\ threads'[t].last_ipd = threads[t].last_ipd
                  /\ threads'[t].seen = threads[t].seen]_vars

C3_Witness ==
    \E t \in Tids :
        /\ FlagUnset(threads[t].tick)
        /\ threads[t].tick.pos
        /\ threads[t].last_ipd = 630
        /\ Len(views_history[threads[t].ctx]) = 2

\* C4: a tick whose located views have a validity flag unset still takes the
\* hand samples and (with a face context) the face samples, sends a tracking
\* batch and polls the buttons.
C4_InvalidTickStillSendsHands ==
    \A t \in Tids :
        (threads[t].pc = "tick_end" /\ FlagUnset(threads[t].tick)) =>
            /\ {"hands", "tracking", "buttons_polled"} \subseteq threads[t].tick.did
            /\ threads[t].face => "face" \in threads[t].tick.did

\* The readings of one thread so far are all within 0.001 of its first one.
AllNearFirst(seen) == seen.first # None /\ seen.near
Far(a, b) == a - b > IPD_CHANGE_EPS \/ b - a > IPD_CHANGE_EPS

\* What C9 says of one valid tick: a reading more than 0.001 from the last
\* notified value sends one notification and becomes the reference; any
\* other reading sends none and leaves the reference.
C9_Tick ==
    \A t \in Tids, in \in SamplerReadings :
        SamplerTick(t, in) =>
            IF Far(threads[t].last_ipd, in.ipd)
            THEN /\ threads'[t].last_ipd = in.ipd
                 /\ "views_config" \in threads'[t].tick.did
                 /\ threads'[t].seen.count = Min(threads[t].seen.count + 1, CountCap)
            ELSE /\ threads'[t].last_ipd = threads[t].last_ipd
                 /\ "views_config" \notin threads'[t].tick.did
                 /\ threads'[t].seen.count = threads[t].seen.count

C16_FailedTickEmitsNothing ==
    \A t \in Tids :
        (threads[t].pc = "tick_end" /\ threads[t].tick.res = "err") =>
            threads[t].tick.did \cap {"views_config", "push", "tracking", "send_buttons"} = {}

\* C28: a sampler thread starts with the IPD reference 0 and no notification
\* sent; as long as it has sent none its reference is 0 and its first valid
\* reading was not above 0.001; a valid tick of a thread that has sent none
\* yet, with an IPD above 0.001, sends one, whatever earlier threads sent.
C28_FirstIpdOfStreamNotified ==
    /\ [][\A t \in Tids :
              (~IsAlive(t) /\ threads'[t].pc = "loop") =>
                  threads'[t].last_ipd = 0 /\ threads'[t].seen = NoSeen]_vars
    /\ [](\A t \in Tids :
              (IsAlive(t) /\ threads[t].seen.count = 0) =>
                  /\ threads[t].last_ipd = 0
                  /\ threads[t].seen.first # None =>
                         threads[t].seen.first[1] <= IPD_CHANGE_EPS)
    /\ [][\A t \in Tids, in \in SamplerReadings :
              (SamplerTick(t, in) /\ threads[t].seen.count = 0
                                  /\ in.ipd > IPD_CHANGE_EPS) =>
                  /\ "views_config" \in threads'[t].tick.did
                  /\ threads'[t].seen.count = 1
                  /\ threads'[t].last_ipd = in.ipd]_vars

\* C28 is checked where the thread of a later stream has sent a notification
\* in its first valid tick, the history holding entries of an earlier stream
\* of the session.
C28_Witness ==
    \E t \in Tids :
        /\ threads[t].pc = "locked"
        /\ threads[t].seen.valid = 1
        /\ threads[t].seen.count = 1
        /\ threads[t].last_ipd = 630
        /\ Len(views_history[threads[t].ctx]) = 3


\* ------------------------------------------------- claims under SpecStream
\* The entries of the current history with the frame's timestamp.
Matching == {i \in 1..Len(views_history[session]) :
                 views_history[session][i].timestamp = frame.timestamp}
LookupStep == ppc = "lookup" /\ ppc' = "end_frame"
SubmitStep == ppc = "end_frame" /\ ppc' = "frame_done"

\* The projection layer carries the views and the timestamp the tick chose.
SubmitsChosen ==
    SubmitStep => /\ submitted'.views = frame.views
                  /\ submitted'.time = frame.timestamp
                  /\ submitted'.matched = frame.matched

\* C5: if the history holds an entry with exactly the frame's timestamp, the
\* views submitted are that entry's (the last such entry's) and last-good
\* becomes them; views are taken from the history only on such a match.
C5_ExactTimestampMatch ==
    /\ [][LookupStep =>
              /\ Matching # {} =>
                     /\ frame'.matched
                     /\ \E i \in Matching :
                            /\ \A j \in Matching : j <= i
                            /\ frame'.views = views_history[session][i].views
                     /\ last_good_views' = frame'.views
              /\ frame'.matched => Matching # {}]_vars
    /\ [][SubmitsChosen]_vars

C5_Witness ==
    /\ ppc = "frame_done"
    /\ submitted.kind = "stream"
    /\ submitted.matched
    /\ submitted.buffer = "real"
    /\ Len(views_history[session]) = 2
    /\ \E i \in 1..2 : /\ views_history[session][i].timestamp # submitted.time
                       /\ views_history[session][i].views # submitted.views

\* C6 as stated: in a streaming tick whose timestamp matches no entry, the
\* views to submit are those the previous tick submitted.
C6_ReusesPreviousTick ==
    (/\ ppc = "end_frame" /\ frame.path = "stream" /\ ~frame.matched
     /\ submitted.kind \in {"lobby", "stream"})
        => frame.views = submitted.views

\* C6 amended: in a streaming tick whose timestamp matches no entry, the
\* views submitted are the last-good views, which the tick leaves unchanged;
\* they are those the previous tick submitted when that was a streaming tick.
C6_ReusesLastGood ==
    /\ [][(LookupStep /\ Matching = {}) =>
              /\ ~frame'.matched
              /\ frame'.views = last_good_views
              /\ last_good_views' = last_good_views]_vars
    /\ [][SubmitsChosen]_vars
    /\ []((/\ ppc = "end_frame" /\ frame.path = "stream" /\ ~frame.matched
           /\ submitted.kind = "stream")
              => frame.views = submitted.views)

C6_Witness ==
    /\ ppc = "frame_done"
    /\ submitted.kind = "stream"
    /\ ~submitted.matched
    /\ submitted.views \in LocatedViews
    /\ views_history[session] # <<>>
    /\ views_history[session][Len(views_history[session])].views # submitted.views
    /\ views_history[session][Len(views_history[session])].views \in LocatedViews

\* C22: a streaming tick whose frame poll gave no frame goes on with the
\* timestamp vsync_time and a null buffer: the history is searched for
\* vsync_time, the views are those of the last entry with it or else the
\* last good ones, and the frame submitted is a stream frame with the null
\* buffer and the display time vsync_time, which to_xr_time turns back into
\* the predicted display time of the runtime.
C22_FallbackFrame ==
    /\ [](\A t \in XrTimes : to_xr_time(FromXrTime(t)) = t)
    /\ []((ppc \in {"lookup", "end_frame"} /\ frame.buffer = "null") =>
              frame.path = "stream" /\ frame.timestamp = frame.vsync)
    /\ [][(ppc = "lookup" /\ frame.buffer = "null" /\ ppc' # ppc) =>
              /\ ppc' = "end_frame"
              /\ frame'.matched =
                     (\E i \in 1..Len(views_history[session]) :
                          views_history[session][i].timestamp = frame.vsync)
              /\ frame'.views = ChosenViews(FindViews(views_history[session], frame.vsync),
                                            last_good_views)
              /\ frame'.buffer = "null"]_vars
    /\ [][(ppc = "end_frame" /\ frame.buffer = "null" /\ ppc' # ppc) =>
              /\ ppc' = "frame_done"
              /\ submitted'.kind = "stream"
              /\ submitted'.buffer = "null"
              /\ submitted'.time = frame.vsync
              /\ submitted'.views = frame.views]_vars

\* C22 is checked where the frame of a timed-out poll has been submitted
\* with views that the history held for vsync_time.
C22_Witness ==
    /\ ppc = "frame_done"
    /\ submitted.kind = "stream"
    /\ submitted.buffer = "null"
    /\ submitted.matched
    /\ submitted.views # DefaultViews


\* ------------------------------------------------ claims under SpecHistory
\* The number of valid ticks the session's sampler has run.
ValidTicks == threads[1].seen.valid
\* The entries of ticks n - min(n, 360) + 1 .. n, oldest first.
LastTicks(n) == [i \in 1..Min(n, 360) |->
                     HistoryView(n - Min(n, 360) + i, ViewsAt(n - Min(n, 360) + i))]

\* C7: whenever the history lock is not held, the View History Buffer holds
\* at most 360 entries.
C7_AtMost360Unlocked ==
    \A s \in Sessions : history_lock[s] = 0 => Len(views_history[s]) <= 360

C7_Witness ==
    /\ history_lock[session] = 0
    /\ Len(views_history[session]) = 360
    /\ ValidTicks > 361
    /\ ppc = "end_frame"

\* C8: after n valid ticks with distinct timestamps the buffer holds the
\* entries of the last min(n, 360) ticks in insertion order; from the 361st
\* insertion on a lookup of the first tick's timestamp finds nothing, and
\* after 1000 ticks the buffer is ticks 641..1000.
C8_FifoLast360 ==
    /\ [](history_lock[session] = 0 =>
              /\ views_history[session] = LastTicks(ValidTicks)
              /\ ValidTicks = 1000 =>
                     /\ Len(views_history[session]) = 360
                     /\ \A i \in 1..360 :
                            views_history[session][i].timestamp = 640 + i)
    /\ [][(LookupStep /\ frame.timestamp = 1 /\ ValidTicks >= 361)
               => ~frame'.matched]_vars

C8_Witness ==
    /\ history_lock[session] = 0
    /\ ValidTicks = 1000
    /\ views_history[session][1].timestamp = 641
    /\ views_history[session][360].timestamp = 1000
    /\ ppc = "end_frame"
    /\ ~frame.matched

\* --------------------------------------------------- claims under SpecPoll
\* C11: the frame poll loop ends: with no frame it ends once the clock has
\* reached the deadline of 0.8 x frame_interval set at its entry, and the
\* tick goes on with the fallback (vsync_time, null); after the first poll
\* that yields a frame no further poll is made and the tick goes on with
\* that frame.
C11_PollLoopTerminates ==
    /\ (ppc = "poll") ~> (ppc = "lookup")
    /\ [][(ppc = "poll" /\ ppc' = "lookup") =>
              IF frame.result = None
              THEN /\ frame.now >= frame.deadline
                   /\ frame'.buffer = "null"
                   /\ frame'.timestamp = frame.vsync
              ELSE /\ frame'.buffer = "real"
                   /\ frame'.timestamp = frame.result[1]]_vars
    /\ [][(ppc = "poll" /\ frame.result # None) =>
              (frame' = frame \/ ppc' = "lookup")]_vars
    /\ [](ppc = "poll" => frame.deadline \in {0, 8, 16, 24})

C11_Witness ==
    /\ ppc = "lookup"
    /\ frame.buffer = "null"
    /\ frame.deadline = 16
    /\ frame.now >= 16
    /\ frame.timestamp = frame.vsync

\* ------------------------------------------------- claims under SpecCancel
\* The thread whose JoinHandle the Pacer holds.
Held == streaming_input_thread[1]

\* C15: a sampler thread ends only by returning from its loop, at the loop
\* condition, with the flag cleared; once the flag is cleared it begins no
\* further tick; and each join of the Pacer returns.
C15_CooperativeStop ==
    /\ (ppc = "stopped_join") ~> (ppc = "core_events")
    /\ (ppc = "stopping_join") ~> (ppc = "stopping_pause")
    /\ [][\A t \in Tids :
              (IsAlive(t) /\ threads'[t].pc \in {"done", "free"}) =>
                  /\ threads[t].pc = "loop"
                  /\ ~is_streaming[threads[t].ctx]]_vars
    /\ [][\A t \in Tids :
              (threads[t].pc = "loop" /\ ~is_streaming[threads[t].ctx]) =>
                  threads'[t].pc \in {"loop", "done", "free"}]_vars
    /\ [][(ppc \in {"stopped_join", "stopping_join"} /\ ppc' # ppc) =>
              (streaming_input_thread # None => threads[Held].pc = "done")]_vars

C15_Witness ==
    /\ ppc = "stopped_join"
    /\ streaming_input_thread # None
    /\ threads[Held].pc = "locked"
    /\ ~is_streaming[session]

\* -------------------------------------------------- claims under SpecLocks
LockUsers == Tids \cup {PacerId}
\* The locks of which x holds a guard.
LocksHeld(x) ==
    {<<"history", s>> : s \in {s \in Sessions : history_lock[s] = x}}
    \cup {<<"space", s>> : s \in {s \in Sessions : x \in space_lock[s].readers
                                                  \/ space_lock[s].writer = x}}
\* The session whose locks x uses, and the lock x is about to take, if any.
SessionOf(x) == IF x = PacerId THEN session ELSE threads[x].ctx
Wants(x) ==
    IF x = PacerId
    THEN (IF ppc = "lookup" THEN "history"
          ELSE IF ppc \in {"space_created", "space_wait"} THEN "write"
          ELSE "none")
    ELSE (IF threads[x].pc = "history" THEN "history"
          ELSE IF threads[x].pc = "hands" THEN "read"
          ELSE IF threads[x].pc = "loop" /\ is_streaming[threads[x].ctx] THEN "read"
          ELSE "none")
\* x cannot go on before y drops a guard (or, for a read, gets and drops the
\* write guard it waits for).
WaitsFor(x, y) ==
    LET s == SessionOf(x) IN
    /\ x # y
    /\ SessionOf(y) = s
    /\ \/ Wants(x) = "history" /\ history_lock[s] = y
       \/ Wants(x) = "write" /\ (y \in space_lock[s].readers \/ space_lock[s].writer = y)
       \/ Wants(x) = "read" /\ (space_lock[s].writer = y
                                  \/ (y = PacerId /\ WriterWaits(s)))
\* The positions in which a thread is in a runtime call, asleep or in a join.
SamplerBlocking == {"locate_views", "hand_motion", "tick_end"}
PacerBlocking == {"rt_events", "core_events", "frame_wait", "render", "stopped_join",
                  "lobby_locate", "ending", "space_bounds"}

\* C18: no thread ever holds guards of two locks; the history mutex is held by
\* a sampler only between its push and its eviction and by the Pacer only in
\* its scan, the only step its holder takes is the one that drops it, and
\* its holder is never in a runtime call, asleep or in a join; no two and no
\* three threads wait for each other's locks.
C18_OneLockAtATime ==
    /\ [](\A x \in LockUsers : Cardinality(LocksHeld(x)) <= 1)
    /\ [](\A s \in Sessions, t \in Tids : history_lock[s] = t =>
              /\ threads[t].pc = "locked"
              /\ threads[t].ctx = s
              /\ threads[t].pc \notin SamplerBlocking)
    /\ [](\A s \in Sessions : history_lock[s] = PacerId =>
              ppc = "scan" /\ s = session /\ ppc \notin PacerBlocking)
    /\ [][\A s \in Sessions, t \in Tids :
              (history_lock[s] = t /\ threads'[t].pc # threads[t].pc) => history_lock'[s] = 0]_vars
    /\ [][\A s \in Sessions :
              (history_lock[s] = PacerId /\ ppc' # ppc) => history_lock'[s] = 0]_vars
    /\ [](\A x, y \in LockUsers : ~(WaitsFor(x, y) /\ WaitsFor(y, x)))
    /\ [](\A x, y, z \in LockUsers : ~(WaitsFor(x, y) /\ WaitsFor(y, z) /\ WaitsFor(z, x)))
    /\ [](\A x, y \in LockUsers : WaitsFor(x, y) => LocksHeld(x) = {})

\* C18 is checked where a sampler holds the history mutex while the Pacer, at
\* its scan, waits for it and another sampler holds a read guard.
C18_Witness ==
    /\ WaitsFor(PacerId, 1)
    /\ history_lock[session] = 1
    /\ 2 \in space_lock[session].readers


\* -------------------------------------------------- claims under SpecFrame
EmptyFrame == <<"wait", "begin", "end_empty">>
FullFrame == <<"wait", "begin", "acquire0", "acquire1", "wait0", "wait1",
               "release0", "release1", "end_projection">>
IsPrefix(p, q) == Len(p) <= Len(q) /\ SubSeq(q, 1, Len(p)) = p

\* C21: the calls of an iteration are always a prefix of wait, begin, end
\* with no layers, or of wait, begin, acquire and wait of both images,
\* release of both, end with one projection layer; no image is released
\* before a path was rendered; an iteration is over, and the next frame wait
\* is made, only with one of the two sequences complete, and the frame
\* submitted is the empty one exactly after the first.
C21_FrameProtocol ==
    /\ [](IsPrefix(frame.calls, EmptyFrame) \/ IsPrefix(frame.calls, FullFrame))
    /\ [](Len(frame.calls) > 6 => frame.path \in {"stream", "lobby"})
    /\ [](Len(frame.calls) \in 3..6 /\ frame.calls # EmptyFrame =>
              frame.chain \in {"stream", "lobby"})
    /\ [](ppc = "frame_done" =>
              /\ frame.calls \in {EmptyFrame, FullFrame}
              /\ (frame.calls = EmptyFrame <=> submitted.kind = "empty")
              /\ (frame.calls = FullFrame => submitted.chain = frame.chain))
    /\ [](ppc \in {"rt_events", "core_events", "frame_wait"} =>
              frame.calls \in {<<>>, EmptyFrame, FullFrame})
    /\ [][ppc = "frame_wait" /\ ppc' = "begin" =>
              frame.calls \in {<<>>, EmptyFrame, FullFrame} /\ frame'.calls = <<"wait">>]_vars

\* C21 is checked where an iteration of the streaming path with a decoded
\* frame has made all nine calls and ended its frame.
C21_Witness ==
    /\ ppc = "frame_done"
    /\ frame.calls = FullFrame
    /\ submitted.kind = "stream"
    /\ frame.buffer = "real"


\* ------------------------------------------------- claims under SpecReport
\* C23: a tick calls report_submit at most once, and only in a stream frame
\* with a buffer that is not null and after a clock reading above zero; the
\* call carries the timestamp of the frame and vsync_time minus the reading,
\* or zero if the reading is later than vsync_time.  No call is made for a
\* fallback frame, a lobby frame or a tick whose clock reading failed.
C23_ReportOnlyRealFrames ==
    /\ [](Len(frame.reports) <= 1)
    /\ [](frame.reports # <<>> =>
              /\ frame.path = "stream"
              /\ frame.buffer = "real"
              /\ frame.reports[1].timestamp = frame.timestamp
              /\ frame.reports[1].clock > 0
              /\ frame.reports[1].latency >= 0
              /\ frame.reports[1].latency =
                     (IF frame.vsync >= frame.reports[1].clock
                      THEN frame.vsync - frame.reports[1].clock ELSE 0))
    /\ [][(ppc = "lookup" /\ ppc' = "end_frame" /\ frame.buffer = "null") =>
              frame'.reports = <<>>]_vars
    /\ [][(ppc = "render" /\ ppc' = "end_frame") => frame'.reports = <<>>]_vars

\* C23 is checked where the latency of a decoded frame has been reported
\* with a clock reading later than vsync_time.
C23_Witness ==
    /\ ppc = "end_frame"
    /\ frame.reports # <<>>
    /\ frame.reports[1].clock > frame.vsync
    /\ frame.reports[1].latency = 0


\* ------------------------------------------------ claims under SpecHaptics
\* C24: the vibration action a request was applied to is the left one for
\* the left hand device and the right one for the right hand device, a
\* request for any other device is applied to no action, and the duration
\* given to the runtime is the one requested.
C24_HapticsToAddressedHand ==
    haptics # NoHaptics =>
        /\ haptics.device \in {"LEFT_HAND_ID", "RIGHT_HAND_ID"}
        /\ haptics.hand = (IF haptics.device = "LEFT_HAND_ID" THEN 0 ELSE 1)
        /\ haptics.duration = haptics.requested


====
